---------------------------- MODULE Spec2Model ----------------------------
(***************************************************************************)
(* Model of the CHILL language server: the comment stripper, the line      *)
(* scanner that builds the semantic model (chill_semantic_parser.py), the  *)
(* query functions over it and the request handlers that use them          *)
(* (chill_lsp_server.py).                                                  *)
(*                                                                         *)
(* Text is a sequence of characters, each a string, so that Python's       *)
(* string operations (upper, strip, split, startswith, find, the regular   *)
(* expressions) are computed character by character as the code does.      *)
(* An ASCII character is the string of this character; a character outside *)
(* ASCII is the string ascii() writes for it ("\\xe9", "\\u017f"). The     *)
(* character tables are those of the Python 3.11 runtime (Unicode 14).     *)
(* An Optional[T] value is the empty set (None) or a singleton {v}.        *)
(* A Python dict is a sequence of [key, val] entries in insertion order.   *)
(***************************************************************************)
EXTENDS Integers, Sequences, FiniteSets, TLC

VARIABLES pc, source, clean, lines, idx, model, documents, models, request, response

vars == <<pc, source, clean, lines, idx, model, documents, models, request, response>>

-----------------------------------------------------------------------------
(* Characters and Python's str methods                                     *)

NL == "\n"

AsciiUpper == "ABCDEFGHIJKLMNOPQRSTUVWXYZ"

AsciiLower == "abcdefghijklmnopqrstuvwxyz"

AsciiLetters == AsciiUpper \o AsciiLower

AsciiDigits == {"0", "1", "2", "3", "4", "5", "6", "7", "8", "9"}

HexDigits == "0123456789abcdef"

\* A character outside ASCII is written the way ascii() writes it: "\\xe9",
\* "\\u017f", "\\U0001d7ce". Such a string is longer than one character.
IsEscaped(c) == Len(c) > 1

\* the character at a place of a string, whether a character is in a string
\* and where
CharAt(text, i) == SubSeq(text, i, i)

Within(c, text) == \E i \in 1..Len(text) : CharAt(text, i) = c

IndexIn(c, text) == CHOOSE i \in 1..Len(text) : CharAt(text, i) = c

\* the number a string of hexadecimal digits stands for
RECURSIVE HexNumber(_)
HexNumber(h) ==
  IF Len(h) = 0 THEN 0
  ELSE 16 * HexNumber(SubSeq(h, 1, Len(h) - 1)) + IndexIn(CharAt(h, Len(h)), HexDigits) - 1

\* the hexadecimal digits of n, width of them
RECURSIVE Hex(_, _)
Hex(n, width) ==
  IF width = 0 THEN "" ELSE Hex(n \div 16, width - 1) \o CharAt(HexDigits, (n % 16) + 1)

\* ord() of a character outside ASCII
Ord(c) == HexNumber(SubSeq(c, 3, Len(c)))

\* chr() of the code point of a letter or of a character outside ASCII
Chr(n) ==
  IF n < 128 THEN CharAt(AsciiLetters, IF n < 97 THEN n - 64 ELSE n - 70)
  ELSE IF n < 256 THEN "\\x" \o Hex(n, 2)
  ELSE IF n < 65536 THEN "\\u" \o Hex(n, 4)
  ELSE "\\U" \o Hex(n, 8)

\* The tables of the runtime's Unicode database are written as lines of
\* records, a space after each record, a record being numbers of six
\* hexadecimal digits with one character between them.
Records(table, width) ==
  UNION {{SubSeq(table[i], k * (width + 1) + 1, k * (width + 1) + width) :
            k \in 0..(Len(table[i]) \div (width + 1)) - 1} : i \in 1..Len(table)}

\* the numbers of a record
Fields(r) == [j \in 1..((Len(r) + 1) \div 7) |-> HexNumber(SubSeq(r, 7 * j - 6, 7 * j - 1))]

Decoded(table, width) == {Fields(r) : r \in Records(table, width)}

\* n is in one of the ranges <<first, last>>
InRanges(n, ranges) == \E r \in ranges : r[1] <= n /\ n <= r[2]

\* the code point a table of runs <<first, last, step, image>> maps n to: n
\* itself when no run holds it
Shifted(n, shifts) == IF shifts = {} THEN n ELSE n + (CHOOSE d \in shifts : TRUE)

RunValue(n, runs) ==
  Shifted(n, {r[4] - r[1] : r \in {q \in runs : q[1] <= n /\ n <= q[2] /\ (n - q[1]) % q[3] = 0}})

\* str.isalnum() outside ASCII, also the letters and digits of the patterns'
\* \w: the ranges first-last of code points, in hexadecimal
AlnumTable ==
  <<"0000aa-0000aa 0000b2-0000b3 0000b5-0000b5 0000b9-0000ba 0000bc-0000be 0000c0-0000d6 0000d8-0000f6 0000f8-0002c1 ",
    "0002c6-0002d1 0002e0-0002e4 0002ec-0002ec 0002ee-0002ee 000370-000374 000376-000377 00037a-00037d 00037f-00037f ",
    "000386-000386 000388-00038a 00038c-00038c 00038e-0003a1 0003a3-0003f5 0003f7-000481 00048a-00052f 000531-000556 ",
    "000559-000559 000560-000588 0005d0-0005ea 0005ef-0005f2 000620-00064a 000660-000669 00066e-00066f 000671-0006d3 ",
    "0006d5-0006d5 0006e5-0006e6 0006ee-0006fc 0006ff-0006ff 000710-000710 000712-00072f 00074d-0007a5 0007b1-0007b1 ",
    "0007c0-0007ea 0007f4-0007f5 0007fa-0007fa 000800-000815 00081a-00081a 000824-000824 000828-000828 000840-000858 ",
    "000860-00086a 000870-000887 000889-00088e 0008a0-0008c9 000904-000939 00093d-00093d 000950-000950 000958-000961 ",
    "000966-00096f 000971-000980 000985-00098c 00098f-000990 000993-0009a8 0009aa-0009b0 0009b2-0009b2 0009b6-0009b9 ",
    "0009bd-0009bd 0009ce-0009ce 0009dc-0009dd 0009df-0009e1 0009e6-0009f1 0009f4-0009f9 0009fc-0009fc 000a05-000a0a ",
    "000a0f-000a10 000a13-000a28 000a2a-000a30 000a32-000a33 000a35-000a36 000a38-000a39 000a59-000a5c 000a5e-000a5e ",
    "000a66-000a6f 000a72-000a74 000a85-000a8d 000a8f-000a91 000a93-000aa8 000aaa-000ab0 000ab2-000ab3 000ab5-000ab9 ",
    "000abd-000abd 000ad0-000ad0 000ae0-000ae1 000ae6-000aef 000af9-000af9 000b05-000b0c 000b0f-000b10 000b13-000b28 ",
    "000b2a-000b30 000b32-000b33 000b35-000b39 000b3d-000b3d 000b5c-000b5d 000b5f-000b61 000b66-000b6f 000b71-000b77 ",
    "000b83-000b83 000b85-000b8a 000b8e-000b90 000b92-000b95 000b99-000b9a 000b9c-000b9c 000b9e-000b9f 000ba3-000ba4 ",
    "000ba8-000baa 000bae-000bb9 000bd0-000bd0 000be6-000bf2 000c05-000c0c 000c0e-000c10 000c12-000c28 000c2a-000c39 ",
    "000c3d-000c3d 000c58-000c5a 000c5d-000c5d 000c60-000c61 000c66-000c6f 000c78-000c7e 000c80-000c80 000c85-000c8c ",
    "000c8e-000c90 000c92-000ca8 000caa-000cb3 000cb5-000cb9 000cbd-000cbd 000cdd-000cde 000ce0-000ce1 000ce6-000cef ",
    "000cf1-000cf2 000d04-000d0c 000d0e-000d10 000d12-000d3a 000d3d-000d3d 000d4e-000d4e 000d54-000d56 000d58-000d61 ",
    "000d66-000d78 000d7a-000d7f 000d85-000d96 000d9a-000db1 000db3-000dbb 000dbd-000dbd 000dc0-000dc6 000de6-000def ",
    "000e01-000e30 000e32-000e33 000e40-000e46 000e50-000e59 000e81-000e82 000e84-000e84 000e86-000e8a 000e8c-000ea3 ",
    "000ea5-000ea5 000ea7-000eb0 000eb2-000eb3 000ebd-000ebd 000ec0-000ec4 000ec6-000ec6 000ed0-000ed9 000edc-000edf ",
    "000f00-000f00 000f20-000f33 000f40-000f47 000f49-000f6c 000f88-000f8c 001000-00102a 00103f-001049 001050-001055 ",
    "00105a-00105d 001061-001061 001065-001066 00106e-001070 001075-001081 00108e-00108e 001090-001099 0010a0-0010c5 ",
    "0010c7-0010c7 0010cd-0010cd 0010d0-0010fa 0010fc-001248 00124a-00124d 001250-001256 001258-001258 00125a-00125d ",
    "001260-001288 00128a-00128d 001290-0012b0 0012b2-0012b5 0012b8-0012be 0012c0-0012c0 0012c2-0012c5 0012c8-0012d6 ",
    "0012d8-001310 001312-001315 001318-00135a 001369-00137c 001380-00138f 0013a0-0013f5 0013f8-0013fd 001401-00166c ",
    "00166f-00167f 001681-00169a 0016a0-0016ea 0016ee-0016f8 001700-001711 00171f-001731 001740-001751 001760-00176c ",
    "00176e-001770 001780-0017b3 0017d7-0017d7 0017dc-0017dc 0017e0-0017e9 0017f0-0017f9 001810-001819 001820-001878 ",
    "001880-001884 001887-0018a8 0018aa-0018aa 0018b0-0018f5 001900-00191e 001946-00196d 001970-001974 001980-0019ab ",
    "0019b0-0019c9 0019d0-0019da 001a00-001a16 001a20-001a54 001a80-001a89 001a90-001a99 001aa7-001aa7 001b05-001b33 ",
    "001b45-001b4c 001b50-001b59 001b83-001ba0 001bae-001be5 001c00-001c23 001c40-001c49 001c4d-001c7d 001c80-001c88 ",
    "001c90-001cba 001cbd-001cbf 001ce9-001cec 001cee-001cf3 001cf5-001cf6 001cfa-001cfa 001d00-001dbf 001e00-001f15 ",
    "001f18-001f1d 001f20-001f45 001f48-001f4d 001f50-001f57 001f59-001f59 001f5b-001f5b 001f5d-001f5d 001f5f-001f7d ",
    "001f80-001fb4 001fb6-001fbc 001fbe-001fbe 001fc2-001fc4 001fc6-001fcc 001fd0-001fd3 001fd6-001fdb 001fe0-001fec ",
    "001ff2-001ff4 001ff6-001ffc 002070-002071 002074-002079 00207f-002089 002090-00209c 002102-002102 002107-002107 ",
    "00210a-002113 002115-002115 002119-00211d 002124-002124 002126-002126 002128-002128 00212a-00212d 00212f-002139 ",
    "00213c-00213f 002145-002149 00214e-00214e 002150-002189 002460-00249b 0024ea-0024ff 002776-002793 002c00-002ce4 ",
    "002ceb-002cee 002cf2-002cf3 002cfd-002cfd 002d00-002d25 002d27-002d27 002d2d-002d2d 002d30-002d67 002d6f-002d6f ",
    "002d80-002d96 002da0-002da6 002da8-002dae 002db0-002db6 002db8-002dbe 002dc0-002dc6 002dc8-002dce 002dd0-002dd6 ",
    "002dd8-002dde 002e2f-002e2f 003005-003007 003021-003029 003031-003035 003038-00303c 003041-003096 00309d-00309f ",
    "0030a1-0030fa 0030fc-0030ff 003105-00312f 003131-00318e 003192-003195 0031a0-0031bf 0031f0-0031ff 003220-003229 ",
    "003248-00324f 003251-00325f 003280-003289 0032b1-0032bf 003400-004dbf 004e00-00a48c 00a4d0-00a4fd 00a500-00a60c ",
    "00a610-00a62b 00a640-00a66e 00a67f-00a69d 00a6a0-00a6ef 00a717-00a71f 00a722-00a788 00a78b-00a7ca 00a7d0-00a7d1 ",
    "00a7d3-00a7d3 00a7d5-00a7d9 00a7f2-00a801 00a803-00a805 00a807-00a80a 00a80c-00a822 00a830-00a835 00a840-00a873 ",
    "00a882-00a8b3 00a8d0-00a8d9 00a8f2-00a8f7 00a8fb-00a8fb 00a8fd-00a8fe 00a900-00a925 00a930-00a946 00a960-00a97c ",
    "00a984-00a9b2 00a9cf-00a9d9 00a9e0-00a9e4 00a9e6-00a9fe 00aa00-00aa28 00aa40-00aa42 00aa44-00aa4b 00aa50-00aa59 ",
    "00aa60-00aa76 00aa7a-00aa7a 00aa7e-00aaaf 00aab1-00aab1 00aab5-00aab6 00aab9-00aabd 00aac0-00aac0 00aac2-00aac2 ",
    "00aadb-00aadd 00aae0-00aaea 00aaf2-00aaf4 00ab01-00ab06 00ab09-00ab0e 00ab11-00ab16 00ab20-00ab26 00ab28-00ab2e ",
    "00ab30-00ab5a 00ab5c-00ab69 00ab70-00abe2 00abf0-00abf9 00ac00-00d7a3 00d7b0-00d7c6 00d7cb-00d7fb 00f900-00fa6d ",
    "00fa70-00fad9 00fb00-00fb06 00fb13-00fb17 00fb1d-00fb1d 00fb1f-00fb28 00fb2a-00fb36 00fb38-00fb3c 00fb3e-00fb3e ",
    "00fb40-00fb41 00fb43-00fb44 00fb46-00fbb1 00fbd3-00fd3d 00fd50-00fd8f 00fd92-00fdc7 00fdf0-00fdfb 00fe70-00fe74 ",
    "00fe76-00fefc 00ff10-00ff19 00ff21-00ff3a 00ff41-00ff5a 00ff66-00ffbe 00ffc2-00ffc7 00ffca-00ffcf 00ffd2-00ffd7 ",
    "00ffda-00ffdc 010000-01000b 01000d-010026 010028-01003a 01003c-01003d 01003f-01004d 010050-01005d 010080-0100fa ",
    "010107-010133 010140-010178 01018a-01018b 010280-01029c 0102a0-0102d0 0102e1-0102fb 010300-010323 01032d-01034a ",
    "010350-010375 010380-01039d 0103a0-0103c3 0103c8-0103cf 0103d1-0103d5 010400-01049d 0104a0-0104a9 0104b0-0104d3 ",
    "0104d8-0104fb 010500-010527 010530-010563 010570-01057a 01057c-01058a 01058c-010592 010594-010595 010597-0105a1 ",
    "0105a3-0105b1 0105b3-0105b9 0105bb-0105bc 010600-010736 010740-010755 010760-010767 010780-010785 010787-0107b0 ",
    "0107b2-0107ba 010800-010805 010808-010808 01080a-010835 010837-010838 01083c-01083c 01083f-010855 010858-010876 ",
    "010879-01089e 0108a7-0108af 0108e0-0108f2 0108f4-0108f5 0108fb-01091b 010920-010939 010980-0109b7 0109bc-0109cf ",
    "0109d2-010a00 010a10-010a13 010a15-010a17 010a19-010a35 010a40-010a48 010a60-010a7e 010a80-010a9f 010ac0-010ac7 ",
    "010ac9-010ae4 010aeb-010aef 010b00-010b35 010b40-010b55 010b58-010b72 010b78-010b91 010ba9-010baf 010c00-010c48 ",
    "010c80-010cb2 010cc0-010cf2 010cfa-010d23 010d30-010d39 010e60-010e7e 010e80-010ea9 010eb0-010eb1 010f00-010f27 ",
    "010f30-010f45 010f51-010f54 010f70-010f81 010fb0-010fcb 010fe0-010ff6 011003-011037 011052-01106f 011071-011072 ",
    "011075-011075 011083-0110af 0110d0-0110e8 0110f0-0110f9 011103-011126 011136-01113f 011144-011144 011147-011147 ",
    "011150-011172 011176-011176 011183-0111b2 0111c1-0111c4 0111d0-0111da 0111dc-0111dc 0111e1-0111f4 011200-011211 ",
    "011213-01122b 011280-011286 011288-011288 01128a-01128d 01128f-01129d 01129f-0112a8 0112b0-0112de 0112f0-0112f9 ",
    "011305-01130c 01130f-011310 011313-011328 01132a-011330 011332-011333 011335-011339 01133d-01133d 011350-011350 ",
    "01135d-011361 011400-011434 011447-01144a 011450-011459 01145f-011461 011480-0114af 0114c4-0114c5 0114c7-0114c7 ",
    "0114d0-0114d9 011580-0115ae 0115d8-0115db 011600-01162f 011644-011644 011650-011659 011680-0116aa 0116b8-0116b8 ",
    "0116c0-0116c9 011700-01171a 011730-01173b 011740-011746 011800-01182b 0118a0-0118f2 0118ff-011906 011909-011909 ",
    "01190c-011913 011915-011916 011918-01192f 01193f-01193f 011941-011941 011950-011959 0119a0-0119a7 0119aa-0119d0 ",
    "0119e1-0119e1 0119e3-0119e3 011a00-011a00 011a0b-011a32 011a3a-011a3a 011a50-011a50 011a5c-011a89 011a9d-011a9d ",
    "011ab0-011af8 011c00-011c08 011c0a-011c2e 011c40-011c40 011c50-011c6c 011c72-011c8f 011d00-011d06 011d08-011d09 ",
    "011d0b-011d30 011d46-011d46 011d50-011d59 011d60-011d65 011d67-011d68 011d6a-011d89 011d98-011d98 011da0-011da9 ",
    "011ee0-011ef2 011fb0-011fb0 011fc0-011fd4 012000-012399 012400-01246e 012480-012543 012f90-012ff0 013000-01342e ",
    "014400-014646 016800-016a38 016a40-016a5e 016a60-016a69 016a70-016abe 016ac0-016ac9 016ad0-016aed 016b00-016b2f ",
    "016b40-016b43 016b50-016b59 016b5b-016b61 016b63-016b77 016b7d-016b8f 016e40-016e96 016f00-016f4a 016f50-016f50 ",
    "016f93-016f9f 016fe0-016fe1 016fe3-016fe3 017000-0187f7 018800-018cd5 018d00-018d08 01aff0-01aff3 01aff5-01affb ",
    "01affd-01affe 01b000-01b122 01b150-01b152 01b164-01b167 01b170-01b2fb 01bc00-01bc6a 01bc70-01bc7c 01bc80-01bc88 ",
    "01bc90-01bc99 01d2e0-01d2f3 01d360-01d378 01d400-01d454 01d456-01d49c 01d49e-01d49f 01d4a2-01d4a2 01d4a5-01d4a6 ",
    "01d4a9-01d4ac 01d4ae-01d4b9 01d4bb-01d4bb 01d4bd-01d4c3 01d4c5-01d505 01d507-01d50a 01d50d-01d514 01d516-01d51c ",
    "01d51e-01d539 01d53b-01d53e 01d540-01d544 01d546-01d546 01d54a-01d550 01d552-01d6a5 01d6a8-01d6c0 01d6c2-01d6da ",
    "01d6dc-01d6fa 01d6fc-01d714 01d716-01d734 01d736-01d74e 01d750-01d76e 01d770-01d788 01d78a-01d7a8 01d7aa-01d7c2 ",
    "01d7c4-01d7cb 01d7ce-01d7ff 01df00-01df1e 01e100-01e12c 01e137-01e13d 01e140-01e149 01e14e-01e14e 01e290-01e2ad ",
    "01e2c0-01e2eb 01e2f0-01e2f9 01e7e0-01e7e6 01e7e8-01e7eb 01e7ed-01e7ee 01e7f0-01e7fe 01e800-01e8c4 01e8c7-01e8cf ",
    "01e900-01e943 01e94b-01e94b 01e950-01e959 01ec71-01ecab 01ecad-01ecaf 01ecb1-01ecb4 01ed01-01ed2d 01ed2f-01ed3d ",
    "01ee00-01ee03 01ee05-01ee1f 01ee21-01ee22 01ee24-01ee24 01ee27-01ee27 01ee29-01ee32 01ee34-01ee37 01ee39-01ee39 ",
    "01ee3b-01ee3b 01ee42-01ee42 01ee47-01ee47 01ee49-01ee49 01ee4b-01ee4b 01ee4d-01ee4f 01ee51-01ee52 01ee54-01ee54 ",
    "01ee57-01ee57 01ee59-01ee59 01ee5b-01ee5b 01ee5d-01ee5d 01ee5f-01ee5f 01ee61-01ee62 01ee64-01ee64 01ee67-01ee6a ",
    "01ee6c-01ee72 01ee74-01ee77 01ee79-01ee7c 01ee7e-01ee7e 01ee80-01ee89 01ee8b-01ee9b 01eea1-01eea3 01eea5-01eea9 ",
    "01eeab-01eebb 01f100-01f10c 01fbf0-01fbf9 020000-02a6df 02a700-02b738 02b740-02b81d 02b820-02cea1 02ceb0-02ebe0 ",
    "02f800-02fa1d 030000-03134a ">>

AlnumRanges == Decoded(AlnumTable, 13)

\* the decimal digits outside ASCII (str.isdecimal(), the patterns' \d) come
\* in runs of ten, zero to nine: the code point of each zero
DecimalZeros ==
  {1632, 1776, 1984, 2406, 2534, 2662, 2790, 2918, 3046, 3174,
   3302, 3430, 3558, 3664, 3792, 3872, 4160, 4240, 6112, 6160,
   6470, 6608, 6784, 6800, 6992, 7088, 7232, 7248, 42528, 43216,
   43264, 43472, 43504, 43600, 44016, 65296, 66720, 68912, 69734, 69872,
   69942, 70096, 70384, 70736, 70864, 71248, 71360, 71472, 71904, 72016,
   72784, 73040, 73120, 92768, 92864, 93008, 120782, 120792, 120802, 120812,
   120822, 123200, 123632, 125264, 130032}

\* str.upper() outside ASCII where it gives one character: the runs
\* first-last/step>image of code points first, first + step, ..., last whose
\* upper case is as far from image as they are from first, in hexadecimal
UpperTable ==
  <<"0000b5-0000b5/000001>00039c 0000e0-0000f6/000001>0000c0 0000f8-0000fe/000001>0000d8 0000ff-0000ff/000001>000178 ",
    "000101-00012f/000002>000100 000131-000131/000001>000049 000133-000137/000002>000132 00013a-000148/000002>000139 ",
    "00014b-000177/000002>00014a 00017a-00017e/000002>000179 00017f-00017f/000001>000053 000180-000180/000001>000243 ",
    "000183-000185/000002>000182 000188-000188/000001>000187 00018c-00018c/000001>00018b 000192-000192/000001>000191 ",
    "000195-000195/000001>0001f6 000199-000199/000001>000198 00019a-00019a/000001>00023d 00019e-00019e/000001>000220 ",
    "0001a1-0001a5/000002>0001a0 0001a8-0001a8/000001>0001a7 0001ad-0001ad/000001>0001ac 0001b0-0001b0/000001>0001af ",
    "0001b4-0001b6/000002>0001b3 0001b9-0001b9/000001>0001b8 0001bd-0001bd/000001>0001bc 0001bf-0001bf/000001>0001f7 ",
    "0001c5-0001c5/000001>0001c4 0001c6-0001c6/000001>0001c4 0001c8-0001c8/000001>0001c7 0001c9-0001c9/000001>0001c7 ",
    "0001cb-0001cb/000001>0001ca 0001cc-0001cc/000001>0001ca 0001ce-0001dc/000002>0001cd 0001dd-0001dd/000001>00018e ",
    "0001df-0001ef/000002>0001de 0001f2-0001f2/000001>0001f1 0001f3-0001f3/000001>0001f1 0001f5-0001f5/000001>0001f4 ",
    "0001f9-00021f/000002>0001f8 000223-000233/000002>000222 00023c-00023c/000001>00023b 00023f-000240/000001>002c7e ",
    "000242-000242/000001>000241 000247-00024f/000002>000246 000250-000250/000001>002c6f 000251-000251/000001>002c6d ",
    "000252-000252/000001>002c70 000253-000253/000001>000181 000254-000254/000001>000186 000256-000257/000001>000189 ",
    "000259-000259/000001>00018f 00025b-00025b/000001>000190 00025c-00025c/000001>00a7ab 000260-000260/000001>000193 ",
    "000261-000261/000001>00a7ac 000263-000263/000001>000194 000265-000265/000001>00a78d 000266-000266/000001>00a7aa ",
    "000268-000268/000001>000197 000269-000269/000001>000196 00026a-00026a/000001>00a7ae 00026b-00026b/000001>002c62 ",
    "00026c-00026c/000001>00a7ad 00026f-00026f/000001>00019c 000271-000271/000001>002c6e 000272-000272/000001>00019d ",
    "000275-000275/000001>00019f 00027d-00027d/000001>002c64 000280-000280/000001>0001a6 000282-000282/000001>00a7c5 ",
    "000283-000283/000001>0001a9 000287-000287/000001>00a7b1 000288-000288/000001>0001ae 000289-000289/000001>000244 ",
    "00028a-00028b/000001>0001b1 00028c-00028c/000001>000245 000292-000292/000001>0001b7 00029d-00029d/000001>00a7b2 ",
    "00029e-00029e/000001>00a7b0 000345-000345/000001>000399 000371-000373/000002>000370 000377-000377/000001>000376 ",
    "00037b-00037d/000001>0003fd 0003ac-0003ac/000001>000386 0003ad-0003af/000001>000388 0003b1-0003c1/000001>000391 ",
    "0003c2-0003c2/000001>0003a3 0003c3-0003cb/000001>0003a3 0003cc-0003cc/000001>00038c 0003cd-0003ce/000001>00038e ",
    "0003d0-0003d0/000001>000392 0003d1-0003d1/000001>000398 0003d5-0003d5/000001>0003a6 0003d6-0003d6/000001>0003a0 ",
    "0003d7-0003d7/000001>0003cf 0003d9-0003ef/000002>0003d8 0003f0-0003f0/000001>00039a 0003f1-0003f1/000001>0003a1 ",
    "0003f2-0003f2/000001>0003f9 0003f3-0003f3/000001>00037f 0003f5-0003f5/000001>000395 0003f8-0003f8/000001>0003f7 ",
    "0003fb-0003fb/000001>0003fa 000430-00044f/000001>000410 000450-00045f/000001>000400 000461-000481/000002>000460 ",
    "00048b-0004bf/000002>00048a 0004c2-0004ce/000002>0004c1 0004cf-0004cf/000001>0004c0 0004d1-00052f/000002>0004d0 ",
    "000561-000586/000001>000531 0010d0-0010fa/000001>001c90 0010fd-0010ff/000001>001cbd 0013f8-0013fd/000001>0013f0 ",
    "001c80-001c80/000001>000412 001c81-001c81/000001>000414 001c82-001c82/000001>00041e 001c83-001c84/000001>000421 ",
    "001c85-001c85/000001>000422 001c86-001c86/000001>00042a 001c87-001c87/000001>000462 001c88-001c88/000001>00a64a ",
    "001d79-001d79/000001>00a77d 001d7d-001d7d/000001>002c63 001d8e-001d8e/000001>00a7c6 001e01-001e95/000002>001e00 ",
    "001e9b-001e9b/000001>001e60 001ea1-001eff/000002>001ea0 001f00-001f07/000001>001f08 001f10-001f15/000001>001f18 ",
    "001f20-001f27/000001>001f28 001f30-001f37/000001>001f38 001f40-001f45/000001>001f48 001f51-001f57/000002>001f59 ",
    "001f60-001f67/000001>001f68 001f70-001f71/000001>001fba 001f72-001f75/000001>001fc8 001f76-001f77/000001>001fda ",
    "001f78-001f79/000001>001ff8 001f7a-001f7b/000001>001fea 001f7c-001f7d/000001>001ffa 001fb0-001fb1/000001>001fb8 ",
    "001fbe-001fbe/000001>000399 001fd0-001fd1/000001>001fd8 001fe0-001fe1/000001>001fe8 001fe5-001fe5/000001>001fec ",
    "00214e-00214e/000001>002132 002170-00217f/000001>002160 002184-002184/000001>002183 0024d0-0024e9/000001>0024b6 ",
    "002c30-002c5f/000001>002c00 002c61-002c61/000001>002c60 002c65-002c65/000001>00023a 002c66-002c66/000001>00023e ",
    "002c68-002c6c/000002>002c67 002c73-002c73/000001>002c72 002c76-002c76/000001>002c75 002c81-002ce3/000002>002c80 ",
    "002cec-002cee/000002>002ceb 002cf3-002cf3/000001>002cf2 002d00-002d25/000001>0010a0 002d27-002d27/000001>0010c7 ",
    "002d2d-002d2d/000001>0010cd 00a641-00a66d/000002>00a640 00a681-00a69b/000002>00a680 00a723-00a72f/000002>00a722 ",
    "00a733-00a76f/000002>00a732 00a77a-00a77c/000002>00a779 00a77f-00a787/000002>00a77e 00a78c-00a78c/000001>00a78b ",
    "00a791-00a793/000002>00a790 00a794-00a794/000001>00a7c4 00a797-00a7a9/000002>00a796 00a7b5-00a7c3/000002>00a7b4 ",
    "00a7c8-00a7ca/000002>00a7c7 00a7d1-00a7d1/000001>00a7d0 00a7d7-00a7d9/000002>00a7d6 00a7f6-00a7f6/000001>00a7f5 ",
    "00ab53-00ab53/000001>00a7b3 00ab70-00abbf/000001>0013a0 00ff41-00ff5a/000001>00ff21 010428-01044f/000001>010400 ",
    "0104d8-0104fb/000001>0104b0 010597-0105bb/000002>010570 010598-0105a0/000002>010571 0105a4-0105b0/000002>01057d ",
    "0105b4-0105b8/000002>01058d 0105bc-0105bc/000001>010595 010cc0-010cf2/000001>010c80 0118c0-0118df/000001>0118a0 ",
    "016e60-016e7f/000001>016e40 01e922-01e943/000001>01e900 ">>

UpperRuns == Decoded(UpperTable, 27)

\* str.upper() where it gives two or three characters: code point=the code
\* points of its upper case, in hexadecimal, 000000 where there is none
UpperSpecialTable ==
  <<"0000df=000053+000053+000000 000149=0002bc+00004e+000000 0001f0=00004a+00030c+000000 000390=000399+000308+000301 ",
    "0003b0=0003a5+000308+000301 000587=000535+000552+000000 001e96=000048+000331+000000 001e97=000054+000308+000000 ",
    "001e98=000057+00030a+000000 001e99=000059+00030a+000000 001e9a=000041+0002be+000000 001f50=0003a5+000313+000000 ",
    "001f52=0003a5+000313+000300 001f54=0003a5+000313+000301 001f56=0003a5+000313+000342 001f80=001f08+000399+000000 ",
    "001f81=001f09+000399+000000 001f82=001f0a+000399+000000 001f83=001f0b+000399+000000 001f84=001f0c+000399+000000 ",
    "001f85=001f0d+000399+000000 001f86=001f0e+000399+000000 001f87=001f0f+000399+000000 001f88=001f08+000399+000000 ",
    "001f89=001f09+000399+000000 001f8a=001f0a+000399+000000 001f8b=001f0b+000399+000000 001f8c=001f0c+000399+000000 ",
    "001f8d=001f0d+000399+000000 001f8e=001f0e+000399+000000 001f8f=001f0f+000399+000000 001f90=001f28+000399+000000 ",
    "001f91=001f29+000399+000000 001f92=001f2a+000399+000000 001f93=001f2b+000399+000000 001f94=001f2c+000399+000000 ",
    "001f95=001f2d+000399+000000 001f96=001f2e+000399+000000 001f97=001f2f+000399+000000 001f98=001f28+000399+000000 ",
    "001f99=001f29+000399+000000 001f9a=001f2a+000399+000000 001f9b=001f2b+000399+000000 001f9c=001f2c+000399+000000 ",
    "001f9d=001f2d+000399+000000 001f9e=001f2e+000399+000000 001f9f=001f2f+000399+000000 001fa0=001f68+000399+000000 ",
    "001fa1=001f69+000399+000000 001fa2=001f6a+000399+000000 001fa3=001f6b+000399+000000 001fa4=001f6c+000399+000000 ",
    "001fa5=001f6d+000399+000000 001fa6=001f6e+000399+000000 001fa7=001f6f+000399+000000 001fa8=001f68+000399+000000 ",
    "001fa9=001f69+000399+000000 001faa=001f6a+000399+000000 001fab=001f6b+000399+000000 001fac=001f6c+000399+000000 ",
    "001fad=001f6d+000399+000000 001fae=001f6e+000399+000000 001faf=001f6f+000399+000000 001fb2=001fba+000399+000000 ",
    "001fb3=000391+000399+000000 001fb4=000386+000399+000000 001fb6=000391+000342+000000 001fb7=000391+000342+000399 ",
    "001fbc=000391+000399+000000 001fc2=001fca+000399+000000 001fc3=000397+000399+000000 001fc4=000389+000399+000000 ",
    "001fc6=000397+000342+000000 001fc7=000397+000342+000399 001fcc=000397+000399+000000 001fd2=000399+000308+000300 ",
    "001fd3=000399+000308+000301 001fd6=000399+000342+000000 001fd7=000399+000308+000342 001fe2=0003a5+000308+000300 ",
    "001fe3=0003a5+000308+000301 001fe4=0003a1+000313+000000 001fe6=0003a5+000342+000000 001fe7=0003a5+000308+000342 ",
    "001ff2=001ffa+000399+000000 001ff3=0003a9+000399+000000 001ff4=00038f+000399+000000 001ff6=0003a9+000342+000000 ",
    "001ff7=0003a9+000342+000399 001ffc=0003a9+000399+000000 00fb00=000046+000046+000000 00fb01=000046+000049+000000 ",
    "00fb02=000046+00004c+000000 00fb03=000046+000046+000049 00fb04=000046+000046+00004c 00fb05=000053+000054+000000 ",
    "00fb06=000053+000054+000000 00fb13=000544+000546+000000 00fb14=000544+000535+000000 00fb15=000544+00053b+000000 ",
    "00fb16=00054e+000546+000000 00fb17=000544+00053d+000000 ">>

UpperSpecial == Decoded(UpperSpecialTable, 27)

\* the lower case the regular expressions use under re.IGNORECASE, outside
\* ASCII: runs as in UpperTable
LowerTable ==
  <<"0000c0-0000d6/000001>0000e0 0000d8-0000de/000001>0000f8 000100-00012e/000002>000101 000130-000130/000001>000069 ",
    "000132-000136/000002>000133 000139-000147/000002>00013a 00014a-000176/000002>00014b 000178-000178/000001>0000ff ",
    "000179-00017d/000002>00017a 000181-000181/000001>000253 000182-000184/000002>000183 000186-000186/000001>000254 ",
    "000187-000187/000001>000188 000189-00018a/000001>000256 00018b-00018b/000001>00018c 00018e-00018e/000001>0001dd ",
    "00018f-00018f/000001>000259 000190-000190/000001>00025b 000191-000191/000001>000192 000193-000193/000001>000260 ",
    "000194-000194/000001>000263 000196-000196/000001>000269 000197-000197/000001>000268 000198-000198/000001>000199 ",
    "00019c-00019c/000001>00026f 00019d-00019d/000001>000272 00019f-00019f/000001>000275 0001a0-0001a4/000002>0001a1 ",
    "0001a6-0001a6/000001>000280 0001a7-0001a7/000001>0001a8 0001a9-0001a9/000001>000283 0001ac-0001ac/000001>0001ad ",
    "0001ae-0001ae/000001>000288 0001af-0001af/000001>0001b0 0001b1-0001b2/000001>00028a 0001b3-0001b5/000002>0001b4 ",
    "0001b7-0001b7/000001>000292 0001b8-0001b8/000001>0001b9 0001bc-0001bc/000001>0001bd 0001c4-0001c4/000001>0001c6 ",
    "0001c5-0001c5/000001>0001c6 0001c7-0001c7/000001>0001c9 0001c8-0001c8/000001>0001c9 0001ca-0001ca/000001>0001cc ",
    "0001cb-0001db/000002>0001cc 0001de-0001ee/000002>0001df 0001f1-0001f1/000001>0001f3 0001f2-0001f4/000002>0001f3 ",
    "0001f6-0001f6/000001>000195 0001f7-0001f7/000001>0001bf 0001f8-00021e/000002>0001f9 000220-000220/000001>00019e ",
    "000222-000232/000002>000223 00023a-00023a/000001>002c65 00023b-00023b/000001>00023c 00023d-00023d/000001>00019a ",
    "00023e-00023e/000001>002c66 000241-000241/000001>000242 000243-000243/000001>000180 000244-000244/000001>000289 ",
    "000245-000245/000001>00028c 000246-00024e/000002>000247 000370-000372/000002>000371 000376-000376/000001>000377 ",
    "00037f-00037f/000001>0003f3 000386-000386/000001>0003ac 000388-00038a/000001>0003ad 00038c-00038c/000001>0003cc ",
    "00038e-00038f/000001>0003cd 000391-0003a1/000001>0003b1 0003a3-0003ab/000001>0003c3 0003cf-0003cf/000001>0003d7 ",
    "0003d8-0003ee/000002>0003d9 0003f4-0003f4/000001>0003b8 0003f7-0003f7/000001>0003f8 0003f9-0003f9/000001>0003f2 ",
    "0003fa-0003fa/000001>0003fb 0003fd-0003ff/000001>00037b 000400-00040f/000001>000450 000410-00042f/000001>000430 ",
    "000460-000480/000002>000461 00048a-0004be/000002>00048b 0004c0-0004c0/000001>0004cf 0004c1-0004cd/000002>0004c2 ",
    "0004d0-00052e/000002>0004d1 000531-000556/000001>000561 0010a0-0010c5/000001>002d00 0010c7-0010c7/000001>002d27 ",
    "0010cd-0010cd/000001>002d2d 0013a0-0013ef/000001>00ab70 0013f0-0013f5/000001>0013f8 001c90-001cba/000001>0010d0 ",
    "001cbd-001cbf/000001>0010fd 001e00-001e94/000002>001e01 001e9e-001e9e/000001>0000df 001ea0-001efe/000002>001ea1 ",
    "001f08-001f0f/000001>001f00 001f18-001f1d/000001>001f10 001f28-001f2f/000001>001f20 001f38-001f3f/000001>001f30 ",
    "001f48-001f4d/000001>001f40 001f59-001f5f/000002>001f51 001f68-001f6f/000001>001f60 001f88-001f8f/000001>001f80 ",
    "001f98-001f9f/000001>001f90 001fa8-001faf/000001>001fa0 001fb8-001fb9/000001>001fb0 001fba-001fbb/000001>001f70 ",
    "001fbc-001fbc/000001>001fb3 001fc8-001fcb/000001>001f72 001fcc-001fcc/000001>001fc3 001fd8-001fd9/000001>001fd0 ",
    "001fda-001fdb/000001>001f76 001fe8-001fe9/000001>001fe0 001fea-001feb/000001>001f7a 001fec-001fec/000001>001fe5 ",
    "001ff8-001ff9/000001>001f78 001ffa-001ffb/000001>001f7c 001ffc-001ffc/000001>001ff3 002126-002126/000001>0003c9 ",
    "00212a-00212a/000001>00006b 00212b-00212b/000001>0000e5 002132-002132/000001>00214e 002160-00216f/000001>002170 ",
    "002183-002183/000001>002184 0024b6-0024cf/000001>0024d0 002c00-002c2f/000001>002c30 002c60-002c60/000001>002c61 ",
    "002c62-002c62/000001>00026b 002c63-002c63/000001>001d7d 002c64-002c64/000001>00027d 002c67-002c6b/000002>002c68 ",
    "002c6d-002c6d/000001>000251 002c6e-002c6e/000001>000271 002c6f-002c6f/000001>000250 002c70-002c70/000001>000252 ",
    "002c72-002c72/000001>002c73 002c75-002c75/000001>002c76 002c7e-002c7f/000001>00023f 002c80-002ce2/000002>002c81 ",
    "002ceb-002ced/000002>002cec 002cf2-002cf2/000001>002cf3 00a640-00a66c/000002>00a641 00a680-00a69a/000002>00a681 ",
    "00a722-00a72e/000002>00a723 00a732-00a76e/000002>00a733 00a779-00a77b/000002>00a77a 00a77d-00a77d/000001>001d79 ",
    "00a77e-00a786/000002>00a77f 00a78b-00a78b/000001>00a78c 00a78d-00a78d/000001>000265 00a790-00a792/000002>00a791 ",
    "00a796-00a7a8/000002>00a797 00a7aa-00a7aa/000001>000266 00a7ab-00a7ab/000001>00025c 00a7ac-00a7ac/000001>000261 ",
    "00a7ad-00a7ad/000001>00026c 00a7ae-00a7ae/000001>00026a 00a7b0-00a7b0/000001>00029e 00a7b1-00a7b1/000001>000287 ",
    "00a7b2-00a7b2/000001>00029d 00a7b3-00a7b3/000001>00ab53 00a7b4-00a7c2/000002>00a7b5 00a7c4-00a7c4/000001>00a794 ",
    "00a7c5-00a7c5/000001>000282 00a7c6-00a7c6/000001>001d8e 00a7c7-00a7c9/000002>00a7c8 00a7d0-00a7d0/000001>00a7d1 ",
    "00a7d6-00a7d8/000002>00a7d7 00a7f5-00a7f5/000001>00a7f6 00ff21-00ff3a/000001>00ff41 010400-010427/000001>010428 ",
    "0104b0-0104d3/000001>0104d8 010570-010594/000002>010597 010571-010579/000002>010598 01057d-010589/000002>0105a4 ",
    "01058d-010591/000002>0105b4 010595-010595/000001>0105bc 010c80-010cb2/000001>010cc0 0118a0-0118bf/000001>0118c0 ",
    "016e40-016e5f/000001>016e60 01e900-01e921/000001>01e922 ">>

LowerRuns == Decoded(LowerTable, 27)

\* the characters outside ASCII that have another case for the regular
\* expressions: ranges as in AlnumTable
CasedTable ==
  <<"0000b5-0000b5 0000c0-0000d6 0000d8-0000f6 0000f8-000137 000139-00018c 00018e-00019a 00019c-0001a9 0001ac-0001b9 ",
    "0001bc-0001bd 0001bf-0001bf 0001c4-000220 000222-000233 00023a-000254 000256-000257 000259-000259 00025b-00025c ",
    "000260-000261 000263-000263 000265-000266 000268-00026c 00026f-00026f 000271-000272 000275-000275 00027d-00027d ",
    "000280-000280 000282-000283 000287-00028c 000292-000292 00029d-00029e 000345-000345 000370-000373 000376-000377 ",
    "00037b-00037d 00037f-00037f 000386-000386 000388-00038a 00038c-00038c 00038e-0003a1 0003a3-0003d1 0003d5-0003f5 ",
    "0003f7-0003fb 0003fd-000481 00048a-00052f 000531-000556 000561-000587 0010a0-0010c5 0010c7-0010c7 0010cd-0010cd ",
    "0010d0-0010fa 0010fd-0010ff 0013a0-0013f5 0013f8-0013fd 001c80-001c88 001c90-001cba 001cbd-001cbf 001d79-001d79 ",
    "001d7d-001d7d 001d8e-001d8e 001e00-001e9b 001e9e-001e9e 001ea0-001f15 001f18-001f1d 001f20-001f45 001f48-001f4d ",
    "001f50-001f57 001f59-001f59 001f5b-001f5b 001f5d-001f5d 001f5f-001f7d 001f80-001fb4 001fb6-001fbc 001fbe-001fbe ",
    "001fc2-001fc4 001fc6-001fcc 001fd0-001fd3 001fd6-001fdb 001fe0-001fec 001ff2-001ff4 001ff6-001ffc 002126-002126 ",
    "00212a-00212b 002132-002132 00214e-00214e 002160-00217f 002183-002184 0024b6-0024e9 002c00-002c70 002c72-002c73 ",
    "002c75-002c76 002c7e-002ce3 002ceb-002cee 002cf2-002cf3 002d00-002d25 002d27-002d27 002d2d-002d2d 00a640-00a66d ",
    "00a680-00a69b 00a722-00a72f 00a732-00a76f 00a779-00a787 00a78b-00a78d 00a790-00a794 00a796-00a7ae 00a7b0-00a7ca ",
    "00a7d0-00a7d1 00a7d6-00a7d9 00a7f5-00a7f6 00ab53-00ab53 00ab70-00abbf 00fb00-00fb06 00fb13-00fb17 00ff21-00ff3a ",
    "00ff41-00ff5a 010400-01044f 0104b0-0104d3 0104d8-0104fb 010570-01057a 01057c-01058a 01058c-010592 010594-010595 ",
    "010597-0105a1 0105a3-0105b1 0105b3-0105b9 0105bb-0105bc 010c80-010cb2 010cc0-010cf2 0118a0-0118df 016e40-016e7f ",
    "01e900-01e943 ">>

CasedRanges == Decoded(CasedTable, 13)

\* the characters that re.IGNORECASE takes for equal although their lower
\* cases differ, in groups: each is equal to the others of its group
CaseFixGroups ==
  {{"i", "\\u0131"}, {"s", "\\u017f"}, {"\\xb5", "\\u03bc"},
   {"\\u0345", "\\u03b9", "\\u1fbe"}, {"\\u0390", "\\u1fd3"}, {"\\u03b0", "\\u1fe3"},
   {"\\u03b2", "\\u03d0"}, {"\\u03b5", "\\u03f5"}, {"\\u03b8", "\\u03d1"},
   {"\\u03ba", "\\u03f0"}, {"\\u03c0", "\\u03d6"}, {"\\u03c1", "\\u03f1"},
   {"\\u03c2", "\\u03c3"}, {"\\u03c6", "\\u03d5"}, {"\\u0432", "\\u1c80"},
   {"\\u0434", "\\u1c81"}, {"\\u043e", "\\u1c82"}, {"\\u0441", "\\u1c83"},
   {"\\u0442", "\\u1c84", "\\u1c85"}, {"\\u044a", "\\u1c86"}, {"\\u0463", "\\u1c87"},
   {"\\u1c88", "\\ua64b"}, {"\\u1e61", "\\u1e9b"}, {"\\ufb05", "\\ufb06"}}

\* the ASCII characters of str.isspace(): space, \t, \n, \v, \f, \r and the
\* separators 0x1c to 0x1f
AsciiSpaces == {" ", "\t", "\n", "", "\f", "\r", "", "", "", ""}

\* the other characters of str.isspace()
UnicodeSpaces ==
  {"\\x85", "\\xa0", "\\u1680", "\\u2000", "\\u2001", "\\u2002", "\\u2003",
   "\\u2004", "\\u2005", "\\u2006", "\\u2007", "\\u2008", "\\u2009", "\\u200a",
   "\\u2028", "\\u2029", "\\u202f", "\\u205f", "\\u3000"}

\* str.isspace(): also the white space of str.strip(), of str.split() and the
\* regular expressions' \s
IsSpace(c) == c \in AsciiSpaces \cup UnicodeSpaces

\* str.isalnum()
IsAlnum(c) ==
  IF IsEscaped(c) THEN InRanges(Ord(c), AlnumRanges)
  ELSE Within(c, AsciiLetters) \/ c \in AsciiDigits

\* str.isalnum() or c == '_' : also the regular expressions' \w
IsWordChar(c) == IsAlnum(c) \/ c = "_"

\* whether the line has a word character at the 1-based position i: there is
\* none before the line and none after it
IsWordAt(line, i) == i \in 1..Len(line) /\ IsWordChar(line[i])

\* the patterns' \b before the 1-based position p: of the characters on its
\* two sides one is a word character and the other is not
WordBoundary(line, p) == IsWordAt(line, p - 1) # IsWordAt(line, p)

\* the regular expressions' \d: str.isdecimal()
Digits == AsciiDigits \cup {Chr(z + k) : z \in DecimalZeros, k \in 0..9}

\* int() of one decimal digit: how far its code point is from the zero of its run
FromZero(n) == n - (CHOOSE z \in DecimalZeros : z <= n /\ n <= z + 9)

DigitValue(c) ==
  IF c \in AsciiDigits THEN CHOOSE d \in 0..9 : ToString(d) = c
  ELSE FromZero(Ord(c))

\* [A-Z_] and [A-Z0-9_] without re.IGNORECASE
IsIdStartUpper(c) == Within(c, AsciiUpper) \/ c = "_"

IsIdCharUpper(c) == Within(c, AsciiUpper) \/ c \in AsciiDigits \/ c = "_"

\* whether the character has another case for the regular expressions
IsCased(c) ==
  IF IsEscaped(c) THEN InRanges(Ord(c), CasedRanges)
  ELSE Within(c, AsciiLetters)

\* the lower case the regular expressions compare under re.IGNORECASE
LowerChar(c) ==
  IF IsEscaped(c) THEN Chr(RunValue(Ord(c), LowerRuns))
  ELSE IF Within(c, AsciiUpper) THEN CharAt(AsciiLower, IndexIn(c, AsciiUpper))
  ELSE c

\* the other characters re.IGNORECASE takes for equal to a lower-case one
CaseFixes(l) == UNION {g \in CaseFixGroups : l \in g} \ {l}

\* a pattern character p matched against the character ch under re.IGNORECASE:
\* a character without case matches itself only, a cased one every character
\* whose lower case is its own lower case or one of the equal ones
EqIC(ch, p) ==
  \/ ch = p
  \/ /\ IsCased(p)
     /\ \/ LowerChar(ch) = LowerChar(p)
        \/ LowerChar(ch) \in CaseFixes(LowerChar(p))

\* what the letters of a character class [A-Z...] become under re.IGNORECASE:
\* a character is in the class when its lower case is the lower case of one
\* of the letters or equal to it. Outside ASCII these are the four characters
\* of IgnoreCaseLetters: LowerChar gives i for İ and k for K, and
\* CaseFixGroups has ı with i and ſ with s.
IgnoreCaseLetters == {"\\u0130", "\\u0131", "\\u017f", "\\u212a"}

IsLetterIC(c) == Within(c, AsciiLetters) \/ c \in IgnoreCaseLetters

\* [A-Z_] and [A-Z0-9_] under re.IGNORECASE
IsIdStart(c) == IsLetterIC(c) \/ c = "_"

IsIdChar(c) == IsLetterIC(c) \/ c \in AsciiDigits \/ c = "_"

\* str.upper() of the code point of a character outside ASCII: the code
\* points of its upper case, those of UpperSpecialTable when it is there
NotNull(n) == n # 0

UpperCodes(n, special) ==
  IF special = {} THEN <<RunValue(n, UpperRuns)>>
  ELSE SelectSeq(Tail(CHOOSE u \in special : TRUE), NotNull)

UpperOrd(n) == UpperCodes(n, {u \in UpperSpecial : u[1] = n})

ChrAll(codes) == [i \in 1..Len(codes) |-> Chr(codes[i])]

\* str.upper() of one character: a text of one character or more
UpperChar(c) ==
  IF IsEscaped(c) THEN ChrAll(UpperOrd(Ord(c)))
  ELSE IF Within(c, AsciiLower) THEN <<CharAt(AsciiUpper, IndexIn(c, AsciiLower))>>
  ELSE <<c>>

\* str.upper(): the upper case of each character, one after the other
\* (the text is halved so that a long line does not nest deeply)
RECURSIVE UpperFrom(_, _, _)
UpperFrom(s, first, last) ==
  IF first > last THEN <<>>
  ELSE IF first = last THEN UpperChar(s[first])
  ELSE UpperFrom(s, first, (first + last) \div 2) \o UpperFrom(s, (first + last) \div 2 + 1, last)

Upper(s) == UpperFrom(s, 1, Len(s))

None == {}

Some(v) == {v}

IsNone(o) == o = {}

TheValue(o) == CHOOSE v \in o : TRUE

\* s[from:] with a 1-based first position
Drop(s, from) == SubSeq(s, from, Len(s))

\* s[from-1:].startswith(pat) with a 1-based position
StartsAt(s, pat, from) ==
  /\ from >= 1
  /\ from + Len(pat) - 1 <= Len(s)
  /\ SubSeq(s, from, from + Len(pat) - 1) = pat

\* str.startswith
StartsWith(s, pat) == StartsAt(s, pat, 1)

\* the least position >= from at which pat occurs in s, or 0
FindFrom(s, pat, from) ==
  LET hits == {i \in from..(Len(s) - Len(pat) + 1) : StartsAt(s, pat, i)}
  IN  IF hits = {} THEN 0 ELSE CHOOSE i \in hits : \A j \in hits : i <= j

\* pat in s
Contains(s, pat) == FindFrom(s, pat, 1) # 0

\* str.find: 0-based index of the first occurrence, or -1
Find(s, pat) == FindFrom(s, pat, 1) - 1

\* the first position >= from whose character is not white space (Len(s)+1 if none)
SkipSpaces(s, from) ==
  LET rest == {i \in from..Len(s) : ~IsSpace(s[i])}
  IN  IF rest = {} THEN Len(s) + 1 ELSE CHOOSE i \in rest : \A j \in rest : i <= j

\* str.lstrip, str.rstrip, str.strip
LStrip(s) == Drop(s, SkipSpaces(s, 1))

RStrip(s) ==
  LET keep == {i \in 1..Len(s) : ~IsSpace(s[i])}
  IN  IF keep = {} THEN <<>>
      ELSE SubSeq(s, 1, CHOOSE i \in keep : \A j \in keep : j <= i)

Strip(s) == LStrip(RStrip(s))

\* str.rstrip(';')
RStripSemi(s) ==
  LET keep == {i \in 1..Len(s) : s[i] # ";"}
  IN  IF keep = {} THEN <<>>
      ELSE SubSeq(s, 1, CHOOSE i \in keep : \A j \in keep : j <= i)

\* str.split(sep) for a one-character separator: never empty, keeps empty pieces
RECURSIVE SplitOn(_, _)
SplitOn(s, sep) ==
  LET at == FindFrom(s, <<sep>>, 1)
  IN  IF at = 0 THEN <<s>>
      ELSE <<SubSeq(s, 1, at - 1)>> \o SplitOn(Drop(s, at + 1), sep)

\* str.split(): the maximal runs of non-space characters
RECURSIVE Tokens(_)
Tokens(s) ==
  LET b == SkipSpaces(s, 1)
      ends == {i \in b..Len(s) : IsSpace(s[i])}
      e == IF ends = {} THEN Len(s) + 1 ELSE CHOOSE i \in ends : \A j \in ends : i <= j
  IN  IF b > Len(s) THEN <<>>
      ELSE <<SubSeq(s, b, e - 1)>> \o Tokens(Drop(s, e))

\* sep.join(parts)
RECURSIVE Join(_, _)
Join(parts, sep) ==
  IF Len(parts) = 0 THEN <<>>
  ELSE IF Len(parts) = 1 THEN parts[1]
  ELSE parts[1] \o sep \o Join(Tail(parts), sep)

\* the position after the longest run of characters satisfying an identifier
\* character class, starting at from
IdEnd(s, from) ==
  LET stop == {i \in from..Len(s) : ~IsIdChar(s[i])}
  IN  IF stop = {} THEN Len(s) + 1 ELSE CHOOSE i \in stop : \A j \in stop : i <= j

\* the first position >= from holding one of the characters of set, or Len(s)+1
UpTo(s, from, set) ==
  LET stop == {i \in from..Len(s) : s[i] \in set}
  IN  IF stop = {} THEN Len(s) + 1 ELSE CHOOSE i \in stop : \A j \in stop : i <= j

-----------------------------------------------------------------------------
(* Python dict: insertion-ordered entries                                  *)

DictHas(d, k) == \E i \in 1..Len(d) : d[i].key = k

DictGet(d, k) == d[CHOOSE i \in 1..Len(d) : d[i].key = k].val

\* d.get(k)
DictGetOpt(d, k) == IF DictHas(d, k) THEN Some(DictGet(d, k)) ELSE None

\* d[k] = v
DictPut(d, k, v) ==
  IF DictHas(d, k)
  THEN [i \in 1..Len(d) |-> IF d[i].key = k THEN [key |-> k, val |-> v] ELSE d[i]]
  ELSE Append(d, [key |-> k, val |-> v])

DictKeys(d) == {d[i].key : i \in 1..Len(d)}

-----------------------------------------------------------------------------
(* ChillParser._preprocess                                                 *)

\* re.sub(r'/\*.*?\*/', '', source, flags=re.DOTALL), from position p on: the
\* leftmost "/*" that some later "*/" closes is removed up to the first such "*/"
RECURSIVE RemoveBlockComments(_, _)
RemoveBlockComments(s, p) ==
  LET opens == {i \in p..Len(s) : /\ StartsAt(s, <<"/", "*">>, i)
                                  /\ FindFrom(s, <<"*", "/">>, i + 2) # 0}
      open == CHOOSE i \in opens : \A j \in opens : i <= j
  IN  IF opens = {} THEN Drop(s, p)
      ELSE SubSeq(s, p, open - 1)
           \o RemoveBlockComments(s, FindFrom(s, <<"*", "/">>, open + 2) + 2)

\* line[:line.index('--')] when '--' in line
CutLineComment(line) ==
  LET at == FindFrom(line, <<"-", "-">>, 1)
  IN  IF at # 0 THEN SubSeq(line, 1, at - 1) ELSE line

Preprocess(src) ==
  LET ls == SplitOn(RemoveBlockComments(src, 1), NL)
  IN  Join([i \in 1..Len(ls) |-> CutLineComment(ls[i])], <<NL>>)

\* the number of lines of a text: len(text.split('\n'))
LineCount(text) == Len(SplitOn(text, NL))

-----------------------------------------------------------------------------
(* Key words of the scanner                                                *)

KwMODULE == <<"M", "O", "D", "U", "L", "E">>

KwNEWMODE == <<"N", "E", "W", "M", "O", "D", "E">>

KwSYNMODE == <<"S", "Y", "N", "M", "O", "D", "E">>

KwDCL == <<"D", "C", "L">>

KwSYN == <<"S", "Y", "N">>

KwPROC == <<"P", "R", "O", "C">>

KwPROCESS == <<"P", "R", "O", "C", "E", "S", "S">>

KwREGION == <<"R", "E", "G", "I", "O", "N">>

KwSIGNAL == <<"S", "I", "G", "N", "A", "L">>

KwBEGIN == <<"B", "E", "G", "I", "N">>

KwEND == <<"E", "N", "D">>

KwRETURNS == <<"R", "E", "T", "U", "R", "N", "S">>

KwSPEC == <<"S", "P", "E", "C">>

KwGENERAL == <<"G", "E", "N", "E", "R", "A", "L">>

KwSTATIC == <<"S", "T", "A", "T", "I", "C">>

KwIN == <<"I", "N">>

KwOUT == <<"O", "U", "T">>

KwINOUT == <<"I", "N", "O", "U", "T">>

KwSET == <<"S", "E", "T">>

KwRANGE == <<"R", "A", "N", "G", "E">>

KwSTRUCT == <<"S", "T", "R", "U", "C", "T">>

KwUNKNOWN == <<"U", "N", "K", "N", "O", "W", "N">>

\* the scope name of ChillSemanticModel.current_scope outside every module
GLOBAL == <<"G", "L", "O", "B", "A", "L">>

\* a pattern literal matched under re.IGNORECASE at position from, character
\* by character
StartsAtIC(s, kw, from) ==
  /\ from >= 1
  /\ from + Len(kw) - 1 <= Len(s)
  /\ \A i \in 1..Len(kw) : EqIC(s[from + i - 1], kw[i])

-----------------------------------------------------------------------------
(* ChillParser: mode names                                                 *)

\* mode_map of _mode_str_to_enum: key word and the name of the ChillMode member
ModeMap ==
  << <<<<"I", "N", "T">>, "INT">>,
     <<<<"B", "O", "O", "L">>, "BOOL">>,
     <<<<"C", "H", "A", "R">>, "CHAR">>,
     <<<<"C", "H", "A", "R", "S">>, "CHARS">>,
     <<<<"B", "O", "O", "L", "S">>, "BOOLS">>,
     <<<<"S", "E", "T">>, "SET">>,
     <<<<"R", "A", "N", "G", "E">>, "RANGE">>,
     <<<<"P", "O", "W", "E", "R", "S", "E", "T">>, "POWERSET">>,
     <<<<"R", "E", "F">>, "REF">>,
     <<<<"S", "T", "R", "U", "C", "T">>, "STRUCT">>,
     <<<<"A", "R", "R", "A", "Y">>, "ARRAY">>,
     <<<<"P", "R", "O", "C">>, "PROC">>,
     <<<<"P", "R", "O", "C", "E", "S", "S">>, "PROCESS">>,
     <<<<"B", "U", "F", "F", "E", "R">>, "BUFFER">>,
     <<<<"E", "V", "E", "N", "T">>, "EVENT">>,
     <<<<"S", "I", "G", "N", "A", "L">>, "SIGNAL">>,
     <<<<"A", "S", "S", "O", "C", "I", "A", "T", "I", "O", "N">>, "ASSOCIATION">>,
     <<<<"A", "C", "C", "E", "S", "S">>, "ACCESS">>,
     <<<<"T", "E", "X", "T">>, "TEXT">>,
     <<<<"D", "U", "R", "A", "T", "I", "O", "N">>, "DURATION">>,
     <<<<"T", "I", "M", "E">>, "TIME">>,
     <<<<"B", "Y", "T", "E">>, "INT">>,
     <<<<"U", "B", "Y", "T", "E">>, "INT">>,
     <<<<"U", "I", "N", "T">>, "INT">>,
     <<<<"L", "O", "N", "G">>, "INT">>,
     <<<<"U", "L", "O", "N", "G">>, "INT">>,
     <<<<"R", "E", "A", "L">>, "INT">>,
     <<<<"L", "O", "N", "G", "_", "R", "E", "A", "L">>, "INT">> >>

\* _mode_str_to_enum raises IndexError on a non-empty string of white space
ModeStrToEnumRaises(mode_str) == mode_str # <<>> /\ Tokens(mode_str) = <<>>

\* _mode_str_to_enum: the ChillMode of the first token, USER_DEFINED when unknown
ModeStrToEnum(mode_str) ==
  LET word == IF mode_str # <<>> THEN Tokens(Strip(Upper(mode_str)))[1] ELSE KwUNKNOWN
      hits == {i \in 1..Len(ModeMap) : ModeMap[i][1] = word}
  IN  IF hits = {} THEN "USER_DEFINED" ELSE ModeMap[CHOOSE i \in hits : TRUE][2]

\* the set literal of _is_builtin_mode
BuiltinModeWords ==
  {<<"I", "N", "T">>, <<"B", "O", "O", "L">>, <<"C", "H", "A", "R">>,
   <<"C", "H", "A", "R", "S">>, <<"B", "O", "O", "L", "S">>, <<"B", "Y", "T", "E">>,
   <<"U", "B", "Y", "T", "E">>, <<"U", "I", "N", "T">>, <<"L", "O", "N", "G">>,
   <<"U", "L", "O", "N", "G">>, <<"R", "E", "A", "L">>,
   <<"L", "O", "N", "G", "_", "R", "E", "A", "L">>,
   <<"D", "U", "R", "A", "T", "I", "O", "N">>, <<"T", "I", "M", "E">>,
   <<"A", "S", "S", "O", "C", "I", "A", "T", "I", "O", "N">>,
   <<"I", "N", "S", "T", "A", "N", "C", "E">>}

\* _is_builtin_mode raises IndexError when the text has no token
IsBuiltinModeRaises(mode_str) == Tokens(Upper(mode_str)) = <<>>

\* _is_builtin_mode: mode_str.upper().split()[0] in {...}
IsBuiltinMode(mode_str) == Tokens(Upper(mode_str))[1] \in BuiltinModeWords

\* the ordered prefix checks of _infer_base_mode
BasePrefixes ==
  << <<<<"S", "E", "T">>, "SET">>,
     <<<<"R", "A", "N", "G", "E">>, "RANGE">>,
     <<<<"S", "T", "R", "U", "C", "T">>, "STRUCT">>,
     <<<<"A", "R", "R", "A", "Y">>, "ARRAY">>,
     <<<<"R", "E", "F">>, "REF">>,
     <<<<"P", "O", "W", "E", "R", "S", "E", "T">>, "POWERSET">>,
     <<<<"C", "H", "A", "R", "S">>, "CHARS">>,
     <<<<"B", "O", "O", "L", "S">>, "BOOLS">>,
     <<<<"P", "R", "O", "C">>, "PROC">>,
     <<<<"B", "U", "F", "F", "E", "R">>, "BUFFER">>,
     <<<<"E", "V", "E", "N", "T">>, "EVENT">>,
     <<<<"S", "I", "G", "N", "A", "L">>, "SIGNAL">> >>

\* _infer_base_mode: the first prefix that matches, else _mode_str_to_enum
InferBaseMode(mode_str) ==
  LET mode_upper == Strip(Upper(mode_str))
      hits == {i \in 1..Len(BasePrefixes) : StartsWith(mode_upper, BasePrefixes[i][1])}
  IN  IF hits # {}
      THEN BasePrefixes[CHOOSE i \in hits : \A j \in hits : i <= j][2]
      ELSE ModeStrToEnum(mode_upper)

-----------------------------------------------------------------------------
(* ChillSemanticModel                                                      *)

\* ChillSemanticModel.__init__
EmptyModel ==
  [dcls |-> <<>>, modes |-> <<>>, synonyms |-> <<>>, procs |-> <<>>,
   processes |-> <<>>, modules |-> <<>>, signals |-> <<>>, regions |-> <<>>,
   current_scope |-> GLOBAL, scope_stack |-> <<>>, module_name |-> None]

\* f"{scope}.{name}"
Qualified(scope, name) == scope \o <<".">> \o name

\* add_dcl: the entity, with its parent scope, under the bare name and the scoped key
AddDcl(m, dcl) ==
  LET d == [dcl EXCEPT !.parent_scope = Some(m.current_scope)]
      key == IF m.current_scope # GLOBAL
             THEN Qualified(m.current_scope, d.name) ELSE d.name
  IN  [m EXCEPT !.dcls = DictPut(DictPut(m.dcls, d.name, d), key, d)]

\* get_dcl: the current-scope-qualified key first, then the bare name
GetDcl(m, name) ==
  LET scoped_name == Qualified(m.current_scope, name)
  IN  IF DictHas(m.dcls, scoped_name) THEN Some(DictGet(m.dcls, scoped_name))
      ELSE IF DictHas(m.dcls, name) THEN Some(DictGet(m.dcls, name))
      ELSE None

AddMode(m, mode) == [m EXCEPT !.modes = DictPut(m.modes, mode.name, mode)]

GetMode(m, name) == DictGetOpt(m.modes, name)

AddProc(m, proc) == [m EXCEPT !.procs = DictPut(m.procs, proc.name, proc)]

GetProc(m, name) == DictGetOpt(m.procs, name)

AddProcess(m, process) ==
  [m EXCEPT !.processes = DictPut(m.processes, process.name, process)]

AddModule(m, module) == [m EXCEPT !.modules = DictPut(m.modules, module.name, module)]

AddSynonym(m, syn) == [m EXCEPT !.synonyms = DictPut(m.synonyms, syn.name, syn)]

AddSignal(m, sig) == [m EXCEPT !.signals = DictPut(m.signals, sig.name, sig)]

PushScope(m, name) ==
  [m EXCEPT !.scope_stack = Append(m.scope_stack, m.current_scope),
            !.current_scope = name]

PopScope(m) ==
  IF m.scope_stack # <<>>
  THEN [m EXCEPT !.current_scope = m.scope_stack[Len(m.scope_stack)],
                 !.scope_stack = SubSeq(m.scope_stack, 1, Len(m.scope_stack) - 1)]
  ELSE m

\* DclDefinition(name=..., mode=...) with the dataclass defaults
DclDefault(name, mode) ==
  [name |-> name, mode |-> mode, mode_name |-> None, initial_value |-> None,
   is_static |-> FALSE, is_dynamic |-> FALSE, is_loc |-> FALSE, is_read |-> FALSE,
   line_number |-> 0, column_start |-> 0, column_end |-> 0, parent_scope |-> None]

-----------------------------------------------------------------------------
(* ChillParser: parameter lists and body extent                            *)

\* re.sub(r'\bWORD\b', '', param, flags=re.IGNORECASE), scanning from position p
RECURSIVE RemoveWord(_, _, _)
RemoveWord(s, word, p) ==
  IF p > Len(s) THEN <<>>
  ELSE IF /\ StartsAtIC(s, word, p)
          /\ WordBoundary(s, p)
          /\ WordBoundary(s, p + Len(word))
       THEN RemoveWord(s, word, p + Len(word))
       ELSE <<s[p]>> \o RemoveWord(s, word, p + 1)

\* the direction chosen for one entry of _parse_parameters
ParamDirection(param) ==
  IF Contains(Upper(param), KwINOUT) THEN KwINOUT
  ELSE IF Contains(Upper(param), KwOUT) THEN KwOUT
  ELSE KwIN

\* the entry with its direction key word removed
ParamStripped(param) ==
  IF Contains(Upper(param), KwINOUT) THEN RemoveWord(param, KwINOUT, 1)
  ELSE IF Contains(Upper(param), KwOUT) THEN RemoveWord(param, KwOUT, 1)
  ELSE IF Contains(Upper(param), KwIN) THEN RemoveWord(param, KwIN, 1)
  ELSE param

\* one iteration of the loop of _parse_parameters: zero or one (name, mode, direction)
ParseOneParameter(raw) ==
  LET param == Strip(raw)
      parts == Tokens(Strip(ParamStripped(param)))
  IN  IF param = <<>> THEN <<>>
      ELSE IF Len(parts) >= 2
      THEN << <<parts[1], parts[Len(parts)], ParamDirection(param)>> >>
      ELSE IF Len(parts) = 1
      THEN << <<parts[1], KwUNKNOWN, ParamDirection(param)>> >>
      ELSE <<>>

RECURSIVE ParseParameterEntries(_)
ParseParameterEntries(entries) ==
  IF entries = <<>> THEN <<>>
  ELSE ParseOneParameter(Head(entries)) \o ParseParameterEntries(Tail(entries))

\* _parse_parameters
ParseParameters(params_str) == ParseParameterEntries(SplitOn(params_str, ","))

\* re.match(r'^[A-Z_][A-Z0-9_]*\s*:\s*', s) on upper-cased text: the position after
\* the match, or 0
LabelEndUpper(s) ==
  LET stop == {i \in 1..Len(s) : ~IsIdCharUpper(s[i])}
      e == IF stop = {} THEN Len(s) + 1 ELSE CHOOSE i \in stop : \A j \in stop : i <= j
      c == SkipSpaces(s, e)
  IN  IF Len(s) >= 1 /\ IsIdStartUpper(s[1]) /\ c <= Len(s) /\ s[c] = ":"
      THEN SkipSpaces(s, c + 1) ELSE 0

\* re.match(r'^[A-Z_][A-Z0-9_]*\s*:\s*KW', s)
IsLabelled(s, kw) == LabelEndUpper(s) # 0 /\ StartsAt(s, kw, LabelEndUpper(s))

\* the change of depth a line of a body causes in _find_end
DepthChange(raw) ==
  LET line == Upper(Strip(raw))
  IN  IF \/ IsLabelled(line, KwPROC) \/ IsLabelled(line, KwPROCESS)
         \/ IsLabelled(line, KwMODULE) \/ IsLabelled(line, KwREGION)
      THEN 1
      ELSE IF StartsWith(line, KwBEGIN) THEN 1
      ELSE IF StartsWith(line, KwEND) THEN -1
      ELSE 0

\* the loop of _find_end from 0-based index i with the depth so far
RECURSIVE FindEndFrom(_, _, _, _)
FindEndFrom(ls, start_idx, i, depth) ==
  IF i >= Len(ls) THEN start_idx + 1
  ELSE LET d == depth + DepthChange(ls[i + 1])
       IN  IF DepthChange(ls[i + 1]) = -1 /\ d = 0 THEN i + 1
           ELSE FindEndFrom(ls, start_idx, i + 1, d)

\* _find_end without the depth counter: the first END line after the header
FindEndIgnoringNesting(ls, start_idx) ==
  LET ends == {i \in (start_idx + 1)..(Len(ls) - 1) : DepthChange(ls[i + 1]) = -1}
  IN  IF ends = {} THEN start_idx + 1
      ELSE (CHOOSE i \in ends : \A j \in ends : i <= j) + 1

\* _find_end: the 1-based line of the matching END, or the header's line
\* _find_end that answers the last line of the input when no END matches
FindEndOrLastLine(ls, start_idx) ==
  IF FindEndFrom(ls, start_idx, start_idx + 1, 1) = start_idx + 1 THEN Len(ls)
  ELSE FindEndFrom(ls, start_idx, start_idx + 1, 1)

FindEnd(ls, start_idx) == FindEndFrom(ls, start_idx, start_idx + 1, 1)

-----------------------------------------------------------------------------
(* ChillParser: the line patterns.  Each Match operator is re.match of the  *)
(* handler's pattern on its line: [ok |-> FALSE] or the groups it captured. *)

NoMatch == [ok |-> FALSE]

\* r'MODULE\s+([A-Z_][A-Z0-9_]*)'
MatchModule(line) ==
  LET q == SkipSpaces(line, 7)
  IN  IF StartsAtIC(line, KwMODULE, 1) /\ q > 7 /\ q <= Len(line) /\ IsIdStart(line[q])
      THEN [ok |-> TRUE, name |-> SubSeq(line, q, IdEnd(line, q) - 1)]
      ELSE NoMatch

\* _parse_module: the Module entity; its name becomes the current scope
ParseModule(m, line, line_num) ==
  LET match == MatchModule(line)
  IN  IF match.ok
      THEN LET module == [name |-> match.name,
                          is_spec |-> Contains(Upper(line), KwSPEC),
                          line_start |-> line_num, line_end |-> 0]
           IN  PushScope([AddModule(m, module) EXCEPT !.module_name = Some(match.name)],
                         match.name)
      ELSE m

\* \s*(X+) at position r, X+ running up to the first character of stop: the
\* captured text, or None when it cannot hold one character.  When only white
\* space precedes the stop, backtracking leaves the last space to the group.
SpacesThenText(line, r, stop) ==
  LET q == SkipSpaces(line, r)
      e == UpTo(line, q, stop)
  IN  IF e > q THEN Some(SubSeq(line, q, e - 1))
      ELSE IF q > r THEN Some(<<line[q - 1]>>)
      ELSE None

\* r'(?:NEWMODE|SYNMODE)\s+([A-Z_][A-Z0-9_]*)\s*=\s*(.+)'
MatchNewmode(line) ==
  LET q == SkipSpaces(line, 8)
      e == IdEnd(line, q)
      eq == SkipSpaces(line, e)
      rest == SpacesThenText(line, eq + 1, {})
  IN  IF /\ (StartsAtIC(line, KwNEWMODE, 1) \/ StartsAtIC(line, KwSYNMODE, 1))
         /\ q > 8 /\ q <= Len(line) /\ IsIdStart(line[q])
         /\ eq <= Len(line) /\ line[eq] = "="
         /\ rest # None
      THEN [ok |-> TRUE, name |-> SubSeq(line, q, e - 1), mode_def |-> TheValue(rest)]
      ELSE NoMatch

\* int() of the text of -?\d+
RECURSIVE DigitsValue(_)
DigitsValue(s) ==
  IF s = <<>> THEN 0
  ELSE 10 * DigitsValue(SubSeq(s, 1, Len(s) - 1))
       + DigitValue(s[Len(s)])

\* the position after -?\d+ at position p, or 0
IntEnd(s, p) ==
  LET b == IF p <= Len(s) /\ s[p] = "-" THEN p + 1 ELSE p
      stop == {i \in b..Len(s) : s[i] \notin Digits}
      e == IF stop = {} THEN Len(s) + 1 ELSE CHOOSE i \in stop : \A j \in stop : i <= j
  IN  IF e > b THEN e ELSE 0

\* sys.get_int_max_str_digits(): int() refuses a text with more digits
MaxStrDigits == 4300

\* the number of digits int() counts in the text of -?\d+
DigitCount(s) == IF s # <<>> /\ s[1] = "-" THEN Len(s) - 1 ELSE Len(s)

\* whether int() of the text of -?\d+ raises ValueError
IntRaises(s) == DigitCount(s) > MaxStrDigits

\* str(e) of this ValueError
IntErrorText(s) ==
  "Exceeds the limit (" \o ToString(MaxStrDigits)
  \o " digits) for integer string conversion: value has "
  \o ToString(DigitCount(s))
  \o " digits; use sys.set_int_max_str_digits() to increase the limit"

\* int() that drops the sign
IntValueUnsigned(s) == DigitsValue(IF s[1] = "-" THEN Tail(s) ELSE s)

IntValue(s) == IF s[1] = "-" THEN 0 - DigitsValue(Tail(s)) ELSE DigitsValue(s)

\* r'RANGE\s*\(\s*(-?\d+)\s*:\s*(-?\d+)\s*\)'
MatchRange(mode_def) ==
  LET a == SkipSpaces(mode_def, 6)
      lo == SkipSpaces(mode_def, a + 1)
      loEnd == IntEnd(mode_def, lo)
      colon == SkipSpaces(mode_def, loEnd)
      hi == SkipSpaces(mode_def, colon + 1)
      hiEnd == IntEnd(mode_def, hi)
      close == SkipSpaces(mode_def, hiEnd)
  IN  IF /\ StartsAtIC(mode_def, KwRANGE, 1)
         /\ a <= Len(mode_def) /\ mode_def[a] = "("
         /\ loEnd # 0
         /\ colon <= Len(mode_def) /\ mode_def[colon] = ":"
         /\ hiEnd # 0
         /\ close <= Len(mode_def) /\ mode_def[close] = ")"
      THEN [ok |-> TRUE, low |-> SubSeq(mode_def, lo, loEnd - 1),
            high |-> SubSeq(mode_def, hi, hiEnd - 1)]
      ELSE NoMatch

\* r'SET\s*\(([^)]+)\)'
MatchSet(mode_def) ==
  LET a == SkipSpaces(mode_def, 4)
      close == UpTo(mode_def, a + 1, {")"})
  IN  IF /\ StartsAtIC(mode_def, KwSET, 1)
         /\ a <= Len(mode_def) /\ mode_def[a] = "("
         /\ close <= Len(mode_def) /\ close > a + 1
      THEN [ok |-> TRUE, values |-> SubSeq(mode_def, a + 1, close - 1)]
      ELSE NoMatch

\* r'STRUCT\s*\((.+)\)' with re.DOTALL: the greedy group runs to the last ')'
MatchStruct(mode_def) ==
  LET a == SkipSpaces(mode_def, 7)
      closes == {i \in (a + 2)..Len(mode_def) : mode_def[i] = ")"}
  IN  IF /\ StartsAtIC(mode_def, KwSTRUCT, 1)
         /\ a <= Len(mode_def) /\ mode_def[a] = "("
         /\ closes # {}
      THEN [ok |-> TRUE,
            fields |-> SubSeq(mode_def, a + 1,
                              (CHOOSE i \in closes : \A j \in closes : j <= i) - 1)]
      ELSE NoMatch

\* [v.strip() for v in values.split(',')]
StripAll(parts) == [i \in 1..Len(parts) |-> Strip(parts[i])]

\* _parse_struct_fields: name -> DclDefinition for each fragment of two or more tokens
RECURSIVE StructFields(_, _)
StructFields(fields, frags) ==
  IF frags = <<>> THEN fields
  ELSE LET parts == Tokens(Strip(Head(frags)))
       IN  StructFields(
             IF Len(parts) >= 2
             THEN DictPut(fields, parts[1],
                          DclDefault(parts[1], ModeStrToEnum(parts[Len(parts)])))
             ELSE fields,
             Tail(frags))

\* the RANGE match of the mode definition of a NEWMODE line
NewmodeRange(line) ==
  IF MatchNewmode(line).ok
  THEN MatchRange(Strip(RStripSemi(MatchNewmode(line).mode_def)))
  ELSE NoMatch

\* whether _parse_newmode raises: int() of a bound of the range
ParseNewmodeRaises(line) ==
  /\ NewmodeRange(line).ok
  /\ \/ IntRaises(NewmodeRange(line).low)
     \/ IntRaises(NewmodeRange(line).high)

\* str(e) of the exception of _parse_newmode: the low bound is converted first
ParseNewmodeError(line) ==
  IF IntRaises(NewmodeRange(line).low) THEN IntErrorText(NewmodeRange(line).low)
  ELSE IntErrorText(NewmodeRange(line).high)

\* _parse_newmode
ParseNewmode(m, line, line_num) ==
  LET match == MatchNewmode(line)
  IN  IF match.ok
      THEN LET mode_def == Strip(RStripSemi(match.mode_def))
               set_match == MatchSet(mode_def)
               range_match == MatchRange(mode_def)
               struct_match == MatchStruct(mode_def)
               mode == [name |-> match.name,
                        base_mode |-> InferBaseMode(mode_def),
                        enum_values |-> IF set_match.ok
                                        THEN StripAll(SplitOn(set_match.values, ","))
                                        ELSE <<>>,
                        range_low |-> IF range_match.ok THEN Some(IntValue(range_match.low))
                                      ELSE None,
                        range_high |-> IF range_match.ok THEN Some(IntValue(range_match.high))
                                       ELSE None,
                        fields |-> IF struct_match.ok
                                   THEN StructFields(<<>>, SplitOn(struct_match.fields, ","))
                                   ELSE <<>>,
                        line_number |-> line_num]
           IN  AddMode(m, mode)
      ELSE m

\* r'DCL\s+([A-Z_][A-Z0-9_]*)\s+([^:;]+)(?:\s*:=\s*([^;]+))?\s*;?'
MatchDcl(line) ==
  LET q == SkipSpaces(line, 4)
      e == IdEnd(line, q)
      w == SkipSpaces(line, e)
      g == UpTo(line, w, {":", ";"})
  IN  IF /\ StartsAtIC(line, KwDCL, 1)
         /\ q > 4 /\ q <= Len(line) /\ IsIdStart(line[q])
         /\ w > e
         /\ (g > w \/ w - e >= 2)
      THEN [ok |-> TRUE, name |-> SubSeq(line, q, e - 1),
            mode_str |-> IF g > w THEN SubSeq(line, w, g - 1) ELSE <<line[w - 1]>>,
            init |-> IF StartsAt(line, <<":", "=">>, g)
                     THEN SpacesThenText(line, g + 2, {";"}) ELSE None]
      ELSE NoMatch

\* _parse_dcl raises (IndexError in _is_builtin_mode) when the mode text is blank
ParseDclRaises(line) ==
  /\ MatchDcl(line).ok
  /\ \/ ModeStrToEnumRaises(Strip(MatchDcl(line).mode_str))
     \/ IsBuiltinModeRaises(Strip(MatchDcl(line).mode_str))

\* _parse_dcl
ParseDcl(m, line, line_num) ==
  LET match == MatchDcl(line)
  IN  IF match.ok
      THEN LET mode_str == Strip(match.mode_str)
               col == Find(Upper(line), Upper(match.name))
               dcl == [name |-> match.name,
                       mode |-> ModeStrToEnum(mode_str),
                       mode_name |-> IF ~IsBuiltinMode(mode_str) THEN Some(mode_str)
                                     ELSE None,
                       initial_value |-> IF match.init # None
                                         THEN Some(Strip(TheValue(match.init)))
                                         ELSE None,
                       is_static |-> Contains(Upper(mode_str), KwSTATIC),
                       is_dynamic |-> FALSE, is_loc |-> FALSE, is_read |-> FALSE,
                       line_number |-> line_num,
                       column_start |-> col,
                       column_end |-> col + Len(match.name),
                       parent_scope |-> None]
           IN  AddDcl(m, dcl)
      ELSE m

\* r'SYN\s+([A-Z_][A-Z0-9_]*)(?:\s+([A-Z_][A-Z0-9_]*))?\s*=\s*([^;]+)\s*;?'
MatchSyn(line) ==
  LET q == SkipSpaces(line, 4)
      e == IdEnd(line, q)
      w == SkipSpaces(line, e)
      hasMode == w > e /\ w <= Len(line) /\ IsIdStart(line[w])
      e2 == IF hasMode THEN IdEnd(line, w) ELSE e
      eq == SkipSpaces(line, e2)
      value == SpacesThenText(line, eq + 1, {";"})
  IN  IF /\ StartsAtIC(line, KwSYN, 1)
         /\ q > 4 /\ q <= Len(line) /\ IsIdStart(line[q])
         /\ eq <= Len(line) /\ line[eq] = "="
         /\ value # None
      THEN [ok |-> TRUE, name |-> SubSeq(line, q, e - 1),
            mode |-> IF hasMode THEN Some(SubSeq(line, w, e2 - 1)) ELSE None,
            value |-> TheValue(value)]
      ELSE NoMatch

\* _parse_syn
ParseSyn(m, line, line_num) ==
  LET match == MatchSyn(line)
  IN  IF match.ok
      THEN AddSynonym(m, [name |-> match.name, mode |-> match.mode,
                          value |-> Strip(match.value), line_number |-> line_num])
      ELSE m

\* ([A-Z_][A-Z0-9_]*)\s*:\s*KW under re.IGNORECASE: the position after KW, or 0
HeaderEnd(line, kw) ==
  LET e == IdEnd(line, 1)
      c == SkipSpaces(line, e)
      k == SkipSpaces(line, c + 1)
  IN  IF /\ Len(line) >= 1 /\ IsIdStart(line[1])
         /\ c <= Len(line) /\ line[c] = ":"
         /\ StartsAtIC(line, kw, k)
      THEN k + Len(kw) ELSE 0

\* \s*(?:\(([^)]*)\))? at position p: the group (None when absent) and the
\* position after it
OptParens(line, p) ==
  LET a == SkipSpaces(line, p)
      close == UpTo(line, a + 1, {")"})
  IN  IF a <= Len(line) /\ line[a] = "(" /\ close <= Len(line)
      THEN [text |-> Some(SubSeq(line, a + 1, close - 1)), next |-> close + 1]
      ELSE [text |-> None, next |-> a]

\* \s*(?:RETURNS\s*\(([^)]+)\))? at position p: the group, None when absent
OptReturns(line, p) ==
  LET b == SkipSpaces(line, p)
      a == SkipSpaces(line, b + 7)
      close == UpTo(line, a + 1, {")"})
  IN  IF /\ StartsAtIC(line, KwRETURNS, b)
         /\ a <= Len(line) /\ line[a] = "("
         /\ close <= Len(line) /\ close > a + 1
      THEN Some(SubSeq(line, a + 1, close - 1))
      ELSE None

\* r'([A-Z_][A-Z0-9_]*)\s*:\s*PROC\s*(?:\(([^)]*)\))?\s*(?:RETURNS\s*\(([^)]+)\))?'
MatchProc(line) ==
  LET p == HeaderEnd(line, KwPROC)
  IN  IF p # 0
      THEN [ok |-> TRUE, name |-> SubSeq(line, 1, IdEnd(line, 1) - 1),
            params_str |-> OptParens(line, p).text,
            returns |-> OptReturns(line, OptParens(line, p).next)]
      ELSE NoMatch

\* the parameters attribute: parsed when the group is present and not empty
ParametersOf(params_str) ==
  IF params_str # None /\ TheValue(params_str) # <<>>
  THEN ParseParameters(TheValue(params_str)) ELSE <<>>

\* _parse_proc
ParseProc(m, line, line_num, all_lines, start_idx) ==
  LET match == MatchProc(line)
  IN  IF match.ok
      THEN AddProc(m, [name |-> match.name,
                       returns_mode |-> IF match.returns # None
                                        THEN Some(Strip(TheValue(match.returns)))
                                        ELSE None,
                       is_general |-> Contains(Upper(line), KwGENERAL),
                       line_start |-> line_num,
                       parameters |-> ParametersOf(match.params_str),
                       line_end |-> FindEnd(all_lines, start_idx)])
      ELSE m

\* r'([A-Z_][A-Z0-9_]*)\s*:\s*PROCESS\s*(?:\(([^)]*)\))?'
MatchProcess(line) ==
  LET p == HeaderEnd(line, KwPROCESS)
  IN  IF p # 0
      THEN [ok |-> TRUE, name |-> SubSeq(line, 1, IdEnd(line, 1) - 1),
            params_str |-> OptParens(line, p).text]
      ELSE NoMatch

\* _parse_process
ParseProcess(m, line, line_num, all_lines, start_idx) ==
  LET match == MatchProcess(line)
  IN  IF match.ok
      THEN AddProcess(m, [name |-> match.name,
                          line_start |-> line_num,
                          parameters |-> ParametersOf(match.params_str),
                          line_end |-> FindEnd(all_lines, start_idx)])
      ELSE m

\* r'SIGNAL\s+([A-Z_][A-Z0-9_]*)(?:\s*\(([^)]*)\))?\s*;?'
MatchSignal(line) ==
  LET q == SkipSpaces(line, 7)
      e == IdEnd(line, q)
  IN  IF StartsAtIC(line, KwSIGNAL, 1) /\ q > 7 /\ q <= Len(line) /\ IsIdStart(line[q])
      THEN [ok |-> TRUE, name |-> SubSeq(line, q, e - 1),
            params_str |-> OptParens(line, e).text]
      ELSE NoMatch

\* the loop of _parse_signal: (name, mode) for each entry of two or more tokens
RECURSIVE SignalParameters(_)
SignalParameters(entries) ==
  IF entries = <<>> THEN <<>>
  ELSE LET parts == Tokens(Strip(Head(entries)))
       IN  (IF Len(parts) >= 2 THEN << <<parts[1], parts[Len(parts)]>> >> ELSE <<>>)
           \o SignalParameters(Tail(entries))

\* _parse_signal
ParseSignal(m, line, line_num) ==
  LET match == MatchSignal(line)
  IN  IF match.ok
      THEN AddSignal(m, [name |-> match.name,
                         parameters |-> IF /\ match.params_str # None
                                           /\ TheValue(match.params_str) # <<>>
                                        THEN SignalParameters(
                                               SplitOn(TheValue(match.params_str), ","))
                                        ELSE <<>>,
                         line_number |-> line_num])
      ELSE m

-----------------------------------------------------------------------------
(* ChillParser._parse_declarations and ChillParser.parse                   *)

\* the PROC and PROCESS tests of the classifier chain, on the upper-cased line
IsProcHeader(stripped) == IsLabelled(stripped, KwPROC)

IsProcessHeader(stripped) == IsLabelled(stripped, KwPROCESS)

\* the branch of the if/elif chain taken for a line: the first test that holds
Classify(line) ==
  LET stripped == Upper(Strip(line))
  IN  IF StartsWith(stripped, KwMODULE) THEN "MODULE"
      ELSE IF StartsWith(stripped, KwNEWMODE) \/ StartsWith(stripped, KwSYNMODE)
      THEN "NEWMODE"
      ELSE IF StartsWith(stripped, KwDCL) THEN "DCL"
      ELSE IF StartsWith(stripped, KwSYN) THEN "SYN"
      ELSE IF IsProcHeader(stripped) THEN "PROC"
      ELSE IF IsProcessHeader(stripped) THEN "PROCESS"
      ELSE IF StartsWith(stripped, KwSIGNAL) THEN "SIGNAL"
      ELSE "NONE"

\* whether the loop body raises on the line at 0-based index i
LineRaises(ls, i) ==
  \/ Classify(ls[i + 1]) = "DCL" /\ ParseDclRaises(Strip(ls[i + 1]))
  \/ Classify(ls[i + 1]) = "NEWMODE" /\ ParseNewmodeRaises(Strip(ls[i + 1]))

\* str(e) of the exception the loop body raises on the line at index i: the
\* IndexError of a DCL line or the ValueError of a NEWMODE line
LineError(ls, i) ==
  IF Classify(ls[i + 1]) = "DCL" THEN "list index out of range"
  ELSE ParseNewmodeError(Strip(ls[i + 1]))

\* the loop body of _parse_declarations for the line at 0-based index i
ParseLine(m, ls, i) ==
  LET line == ls[i + 1]
      line_num == i + 1
      kind == Classify(line)
  IN  CASE kind = "MODULE" -> ParseModule(m, Upper(Strip(line)), line_num)
        [] kind = "NEWMODE" -> ParseNewmode(m, Strip(line), line_num)
        [] kind = "DCL" -> ParseDcl(m, Strip(line), line_num)
        [] kind = "SYN" -> ParseSyn(m, Strip(line), line_num)
        [] kind = "PROC" -> ParseProc(m, Strip(line), line_num, ls, i)
        [] kind = "PROCESS" -> ParseProcess(m, Strip(line), line_num, ls, i)
        [] kind = "SIGNAL" -> ParseSignal(m, Strip(line), line_num)
        [] OTHER -> m

\* _parse_declarations from index i on: the model, or the exception
RECURSIVE ParseDeclarationsFrom(_, _, _)
ParseDeclarationsFrom(m, ls, i) ==
  IF i >= Len(ls) THEN [raised |-> FALSE, model |-> m]
  ELSE IF LineRaises(ls, i)
  THEN [raised |-> TRUE, model |-> m, error |-> LineError(ls, i)]
  ELSE ParseDeclarationsFrom(ParseLine(m, ls, i), ls, i + 1)

\* ChillParser.parse: a fresh model, the cleaned text scanned line by line
Parse(src) == ParseDeclarationsFrom(EmptyModel, SplitOn(Preprocess(src), NL), 0)

-----------------------------------------------------------------------------
(* The name tables of chill_semantic_parser.py                             *)

CHILL_RESERVED_WORDS ==
  {
    <<"A", "B", "S", "T", "R", "A", "C", "T">>,
    <<"A", "C", "C", "E", "S", "S">>, <<"A", "F", "T", "E", "R">>,
    <<"A", "L", "L">>, <<"A", "N", "D">>, <<"A", "N", "D", "I", "F">>,
    <<"A", "N", "Y">>, <<"A", "R", "R", "A", "Y">>,
    <<"A", "S", "S", "E", "R", "T">>, <<"A", "T">>,
    <<"B", "A", "S", "E", "D", "_", "O", "N">>, <<"B", "E", "G", "I", "N">>,
    <<"B", "I", "N">>, <<"B", "O", "D", "Y">>, <<"B", "O", "O", "L", "S">>,
    <<"B", "U", "F", "F", "E", "R">>, <<"B", "Y">>, <<"C", "A", "S", "E">>,
    <<"C", "A", "U", "S", "E">>, <<"C", "H", "A", "R", "S">>,
    <<"C", "O", "N", "T", "E", "X", "T">>,
    <<"C", "O", "N", "T", "I", "N", "U", "E">>, <<"C", "Y", "C", "L", "E">>,
    <<"D", "C", "L">>, <<"D", "E", "L", "A", "Y">>, <<"D", "O">>,
    <<"D", "O", "W", "N">>, <<"D", "Y", "N", "A", "M", "I", "C">>,
    <<"E", "L", "S", "E">>, <<"E", "L", "S", "I", "F">>, <<"E", "N", "D">>,
    <<"E", "S", "A", "C">>, <<"E", "V", "E", "N", "T">>,
    <<"E", "V", "E", "R">>,
    <<"E", "X", "C", "E", "P", "T", "I", "O", "N", "S">>,
    <<"E", "X", "I", "T">>, <<"F", "I">>, <<"F", "I", "N", "A", "L">>,
    <<"F", "O", "R">>, <<"F", "O", "R", "B", "I", "D">>,
    <<"G", "E", "N", "E", "R", "A", "L">>,
    <<"G", "E", "N", "E", "R", "I", "C">>, <<"G", "O", "T", "O">>,
    <<"G", "R", "A", "N", "T">>, <<"I", "F">>,
    <<"I", "M", "P", "L", "E", "M", "E", "N", "T", "S">>, <<"I", "N">>,
    <<"I", "N", "C", "O", "M", "P", "L", "E", "T", "E">>,
    <<"I", "N", "I", "T">>, <<"I", "N", "L", "I", "N", "E">>,
    <<"I", "N", "O", "U", "T">>,
    <<"I", "N", "T", "E", "R", "F", "A", "C", "E">>,
    <<"I", "N", "V", "A", "R", "I", "A", "N", "T">>, <<"L", "O", "C">>,
    <<"M", "O", "D">>, <<"M", "O", "D", "E">>,
    <<"M", "O", "D", "U", "L", "E">>, <<"N", "E", "W">>,
    <<"N", "E", "W", "M", "O", "D", "E">>, <<"N", "O", "N", "R", "E", "F">>,
    <<"N", "O", "P", "A", "C", "K">>, <<"N", "O", "T">>, <<"O", "D">>,
    <<"O", "F">>, <<"O", "N">>, <<"O", "R">>, <<"O", "R", "I", "F">>,
    <<"O", "U", "T">>, <<"P", "A", "C", "K">>, <<"P", "O", "S">>,
    <<"P", "O", "S", "T">>, <<"P", "O", "W", "E", "R", "S", "E", "T">>,
    <<"P", "R", "E">>, <<"P", "R", "E", "F", "I", "X", "E", "D">>,
    <<"P", "R", "I", "O", "R", "I", "T", "Y">>, <<"P", "R", "O", "C">>,
    <<"P", "R", "O", "C", "E", "S", "S">>, <<"R", "A", "N", "G", "E">>,
    <<"R", "E", "A", "D">>, <<"R", "E", "C", "E", "I", "V", "E">>,
    <<"R", "E", "F">>, <<"R", "E", "G", "I", "O", "N">>, <<"R", "E", "M">>,
    <<"R", "E", "M", "O", "T", "E">>, <<"R", "E", "S", "U", "L", "T">>,
    <<"R", "E", "T", "U", "R", "N">>, <<"R", "E", "T", "U", "R", "N", "S">>,
    <<"R", "O", "W">>, <<"S", "E", "I", "Z", "E">>, <<"S", "E", "L", "F">>,
    <<"S", "E", "N", "D">>, <<"S", "E", "T">>,
    <<"S", "I", "G", "N", "A", "L">>, <<"S", "I", "M", "P", "L", "E">>,
    <<"S", "P", "E", "C">>, <<"S", "T", "A", "R", "T">>,
    <<"S", "T", "A", "T", "I", "C">>, <<"S", "T", "E", "P">>,
    <<"S", "T", "O", "P">>, <<"S", "T", "R", "U", "C", "T">>,
    <<"S", "Y", "N">>, <<"S", "Y", "N", "M", "O", "D", "E">>,
    <<"T", "A", "S", "K">>, <<"T", "E", "X", "T">>, <<"T", "H", "E", "N">>,
    <<"T", "H", "I", "S">>, <<"T", "I", "M", "E", "O", "U", "T">>,
    <<"T", "O">>, <<"U", "P">>, <<"V", "A", "R", "Y", "I", "N", "G">>,
    <<"W", "C", "H", "A", "R", "S">>, <<"W", "H", "I", "L", "E">>,
    <<"W", "I", "T", "H">>, <<"W", "T", "E", "X", "T">>, <<"X", "O", "R">>,
    <<"N", "O", "T", "_", "A", "S", "S", "I", "G", "N", "A", "B", "L", "E">>,
    <<"A", "N", "Y", "_", "A", "S", "S", "I", "G", "N">>,
    <<"A", "N", "Y", "_", "D", "I", "S", "C", "R", "E", "T", "E">>,
    <<"A", "N", "Y", "_", "I", "N", "T">>,
    <<"A", "N", "Y", "_", "R", "E", "A", "L">>,
    <<"A", "S", "S", "I", "G", "N", "A", "B", "L", "E">>,
    <<"C", "O", "N", "S", "T", "R">>, <<"D", "E", "S", "T", "R">>,
    <<"R", "E", "I", "M", "P", "L", "E", "M", "E", "N", "T">>}

CHILL_PREDEFINED ==
  {
    <<"A", "B", "S">>, <<"A", "B", "S", "T", "I", "M", "E">>,
    <<"A", "L", "L", "O", "C", "A", "T", "E">>,
    <<"A", "R", "C", "C", "O", "S">>, <<"A", "R", "C", "S", "I", "N">>,
    <<"A", "R", "C", "T", "A", "N">>,
    <<"A", "S", "S", "O", "C", "I", "A", "T", "E">>, <<"C", "A", "R", "D">>,
    <<"C", "O", "N", "N", "E", "C", "T">>, <<"C", "O", "S">>,
    <<"C", "R", "E", "A", "T", "E">>, <<"D", "E", "L", "E", "T", "E">>,
    <<"D", "I", "S", "C", "O", "N", "N", "E", "C", "T">>,
    <<"D", "I", "S", "S", "O", "C", "I", "A", "T", "E">>,
    <<"E", "O", "L", "N">>, <<"E", "X", "I", "S", "T", "I", "N", "G">>,
    <<"E", "X", "P">>, <<"E", "X", "P", "I", "R", "E", "D">>,
    <<"F", "I", "R", "S", "T">>, <<"F", "L", "O", "A", "T">>,
    <<"G", "E", "T", "A", "S", "S", "O", "C", "I", "A", "T", "I", "O", "N">>,
    <<"G", "E", "T", "S", "T", "A", "C", "K">>,
    <<"G", "E", "T", "T", "E", "X", "T", "A", "C", "C", "E", "S", "S">>,
    <<"G", "E", "T", "T", "E", "X", "T", "I", "N", "D", "E", "X">>,
    <<"G", "E", "T", "T", "E", "X", "T", "R", "E", "C", "O", "R", "D">>,
    <<"G", "E", "T", "U", "S", "A", "G", "E">>,
    <<"I", "N", "D", "E", "X", "A", "B", "L", "E">>,
    <<"I", "N", "T", "T", "I", "M", "E">>,
    <<"I", "S", "A", "S", "S", "O", "C", "I", "A", "T", "E", "D">>,
    <<"L", "A", "S", "T">>, <<"L", "E", "N", "G", "T", "H">>, <<"L", "N">>,
    <<"L", "O", "G">>, <<"L", "O", "W", "E", "R">>, <<"M", "A", "X">>,
    <<"M", "I", "N">>, <<"M", "O", "D", "I", "F", "Y">>, <<"N", "U", "M">>,
    <<"O", "U", "T", "O", "F", "F", "I", "L", "E">>, <<"P", "R", "E", "D">>,
    <<"P", "T", "R">>, <<"R", "E", "A", "D", "A", "B", "L", "E">>,
    <<"R", "E", "A", "D", "O", "N", "L", "Y">>,
    <<"R", "E", "A", "D", "R", "E", "C", "O", "R", "D">>,
    <<"R", "E", "A", "D", "T", "E", "X", "T">>,
    <<"R", "E", "A", "D", "W", "R", "I", "T", "E">>, <<"S", "A", "M", "E">>,
    <<"S", "E", "Q", "U", "E", "N", "C", "I", "B", "L", "E">>,
    <<"S", "E", "T", "T", "E", "X", "T", "A", "C", "C", "E", "S", "S">>,
    <<"S", "E", "T", "T", "E", "X", "T", "I", "N", "D", "E", "X">>,
    <<"S", "E", "T", "T", "E", "X", "T", "R", "E", "C", "O", "R", "D">>,
    <<"S", "I", "N">>, <<"S", "I", "Z", "E">>, <<"S", "Q", "R", "T">>,
    <<"S", "U", "C", "C">>, <<"T", "A", "N">>,
    <<"T", "E", "R", "M", "I", "N", "A", "T", "E">>,
    <<"U", "P", "P", "E", "R">>, <<"U", "S", "A", "G", "E">>,
    <<"V", "A", "R", "I", "A", "B", "L", "E">>, <<"W", "A", "I", "T">>,
    <<"W", "C", "H", "A", "R">>, <<"W", "H", "E", "R", "E">>,
    <<"W", "R", "I", "T", "E", "A", "B", "L", "E">>,
    <<"W", "R", "I", "T", "E", "O", "N", "L", "Y">>,
    <<"W", "R", "I", "T", "E", "R", "E", "C", "O", "R", "D">>,
    <<"W", "R", "I", "T", "E", "T", "E", "X", "T">>, <<"I", "N", "T">>,
    <<"B", "O", "O", "L">>, <<"C", "H", "A", "R">>,
    <<"D", "U", "R", "A", "T", "I", "O", "N">>, <<"T", "I", "M", "E">>,
    <<"A", "S", "S", "O", "C", "I", "A", "T", "I", "O", "N">>,
    <<"I", "N", "S", "T", "A", "N", "C", "E">>, <<"B", "Y", "T", "E">>,
    <<"U", "B", "Y", "T", "E">>, <<"U", "I", "N", "T">>,
    <<"L", "O", "N", "G">>, <<"U", "L", "O", "N", "G">>,
    <<"R", "E", "A", "L">>, <<"L", "O", "N", "G", "_", "R", "E", "A", "L">>,
    <<"T", "R", "U", "E">>, <<"F", "A", "L", "S", "E">>,
    <<"N", "U", "L", "L">>, <<"D", "A", "Y", "S">>,
    <<"H", "O", "U", "R", "S">>,
    <<"M", "I", "L", "L", "I", "S", "E", "C", "S">>,
    <<"M", "I", "N", "U", "T", "E", "S">>, <<"S", "E", "C", "S">>,
    <<"S", "E", "C", "O", "N", "D", "S">>,
    <<"M", "I", "C", "R", "O", "S", "E", "C", "S">>}

-----------------------------------------------------------------------------
(* get_completions_at_position                                             *)

\* the loop that collects the prefix: from index i (0-based) down, while the
\* index lies in the line and holds a word character
RECURSIVE PrefixFrom(_, _)
PrefixFrom(line, i) ==
  IF i >= 0 /\ i < Len(line) /\ IsWordChar(line[i + 1])
  THEN PrefixFrom(line, i - 1) \o <<line[i + 1]>>
  ELSE <<>>

CompletionPrefix(line, column) == PrefixFrom(line, column - 1)

\* ChillMode.value
ModeValue(mode) == IF mode = "USER_DEFINED" THEN "USER" ELSE mode

\* the test without upper-casing the name: name.startswith(prefix_upper)
NameMatchesExactCase(name, prefix_upper) == StartsWith(name, prefix_upper)

\* the test each defined name passes to be offered: name.upper().startswith(prefix_upper)
NameMatches(name, prefix_upper) == StartsWith(Upper(name), prefix_upper)

\* get_completions_at_position: the (name, kind) pairs of the returned list.  The
\* list holds no pair twice; the set leaves out its order (that of two Python
\* sets and four dicts).
GetCompletions(m, line, column) ==
  LET prefix_upper == Upper(CompletionPrefix(line, column))
  IN  {<<kw, "keyword">> : kw \in {w \in CHILL_RESERVED_WORDS : StartsWith(w, prefix_upper)}}
      \cup {<<pr, "builtin">> : pr \in {w \in CHILL_PREDEFINED : StartsWith(w, prefix_upper)}}
      \cup {<<m.dcls[i].key, "DCL " \o ModeValue(m.dcls[i].val.mode)>> :
              i \in {j \in 1..Len(m.dcls) : /\ ~Contains(m.dcls[j].key, <<".">>)
                                           /\ NameMatches(m.dcls[j].key, prefix_upper)}}
      \cup {<<n, "mode">> : n \in {k \in DictKeys(m.modes) : NameMatches(k, prefix_upper)}}
      \cup {<<n, "procedure">> : n \in {k \in DictKeys(m.procs) : NameMatches(k, prefix_upper)}}
      \cup {<<n, "constant">> : n \in {k \in DictKeys(m.synonyms) : NameMatches(k, prefix_upper)}}

-----------------------------------------------------------------------------
(* ChillLSPServer: word at a position, find references                     *)

\* _get_word_at_position, the scan to the left: the 0-based start of the word
RECURSIVE WordStart(_, _)
WordStart(line_text, start) ==
  IF start > 0 /\ IsWordChar(line_text[start]) THEN WordStart(line_text, start - 1)
  ELSE start

\* _get_word_at_position, the scan to the right: the 0-based end of the word
RECURSIVE WordEnd(_, _)
WordEnd(line_text, end) ==
  IF end < Len(line_text) /\ IsWordChar(line_text[end + 1])
  THEN WordEnd(line_text, end + 1)
  ELSE end

\* _get_word_at_position: '' beyond the last line; the column is clamped to the line
GetWordAtPosition(text, line, char) ==
  LET ls == SplitOn(text, NL)
      line_text == ls[line + 1]
      c == IF char > Len(line_text) THEN Len(line_text) ELSE char
  IN  IF line >= Len(ls) THEN <<>>
      ELSE SubSeq(line_text, WordStart(line_text, c) + 1, WordEnd(line_text, c))

\* re.compile(r'\b' + re.escape(word) + r'\b', re.IGNORECASE) matches at the
\* 1-based position p of the line. The characters matched need not be word
\* characters: the pattern of a iota also matches U+0345, which is none.
WordMatchesAt(line, word, p) ==
  /\ StartsAtIC(line, word, p)
  /\ WordBoundary(line, p)
  /\ WordBoundary(line, p + Len(word))

\* pattern.finditer(line): the matches from position p on, left to right, none
\* overlapping, as 0-based [start, end) spans
RECURSIVE FindIter(_, _, _)
FindIter(line, word, p) ==
  IF p + Len(word) - 1 > Len(line) THEN <<>>
  ELSE IF WordMatchesAt(line, word, p)
       THEN <<[start |-> p - 1, end |-> p - 1 + Len(word)]>>
            \o FindIter(line, word, p + Len(word))
       ELSE FindIter(line, word, p + 1)

\* LSPLocation(uri, LSPRange(LSPPosition, LSPPosition)).to_dict()
Location(uri, line, start, end) ==
  [uri |-> uri,
   range |-> [start |-> [line |-> line, character |-> start],
              end |-> [line |-> line, character |-> end]]]

\* the loop over the lines of _handle_references, from 0-based line i on
RECURSIVE ReferencesFrom(_, _, _, _)
ReferencesFrom(uri, ls, word, i) ==
  IF i >= Len(ls) THEN <<>>
  ELSE LET found == FindIter(ls[i + 1], word, 1)
       IN  [k \in 1..Len(found) |-> Location(uri, i, found[k].start, found[k].end)]
           \o ReferencesFrom(uri, ls, word, i + 1)

\* _handle_references: the response
HandleReferences(docs, request_id, uri, line, char) ==
  LET word == GetWordAtPosition(docs[uri], line, char)
  IN  [jsonrpc |-> "2.0", id |-> request_id,
       result |-> IF uri \notin DOMAIN docs THEN <<>>
                  ELSE IF word = <<>> THEN <<>>
                  ELSE ReferencesFrom(uri, SplitOn(docs[uri], NL), word, 0)]

-----------------------------------------------------------------------------
(* Source lines the documents of the specifications are made of            *)

\* a line that opens a block comment: /* a
LnOpenComment == <<"/", "*", " ", "a">>

\* a line that closes it: b */
LnCloseComment == <<"b", " ", "*", "/">>

\* DCL x INT;
LnDclX == <<"D", "C", "L", " ", "x", " ", "I", "N", "T", ";">>

\* SYN n = 1; -- c
LnSynComment == <<"S", "Y", "N", " ", "n", " ", "=", " ", "1", ";", " ", "-", "-", " ", "c">>

\* /* c */ DCL y BOOL;
LnCommentDclY == <<"/", "*", " ", "c", " ", "*", "/", " ", "D", "C", "L", " ", "y", " ", "B", "O", "O", "L", ";">>

\* NEWMODE t = RANGE(0:9);
LnModeT == <<"N", "E", "W", "M", "O", "D", "E", " ", "t", " ", "=", " ", "R", "A", "N", "G", "E", "(", "0", ":", "9", ")", ";">>

\* DCL x  ; (two spaces, no mode)
LnDclBlank == <<"D", "C", "L", " ", "x", " ", " ", ";">>

\* DCL z  := 1;
LnDclBlankInit == <<"D", "C", "L", " ", "z", " ", " ", ":", "=", " ", "1", ";">>

\* DCL w BOOL := 0;
LnDclInit == <<"D", "C", "L", " ", "w", " ", "B", "O", "O", "L", " ", ":", "=", " ", "0", ";">>

\* v := 1;
LnAssign == <<"v", " ", ":", "=", " ", "1", ";">>

\* MODULE m;
LnModuleM == <<"M", "O", "D", "U", "L", "E", " ", "m", ";">>

\* END;
LnEnd == <<"E", "N", "D", ";">>

\* p: PROC();
LnProcP == <<"p", ":", " ", "P", "R", "O", "C", "(", ")", ";">>

\*   DCL x BOOL;
LnDclXBool == <<" ", " ", "D", "C", "L", " ", "x", " ", "B", "O", "O", "L", ";">>

\* worker: PROCESS(id INT);
LnProcessW == <<"w", "o", "r", "k", "e", "r", ":", " ", "P", "R", "O", "C", "E", "S", "S", "(", "i", "d", " ", "I", "N", "T", ")", ";">>

\* handler: PROC(input INT) RETURNS(INT);
LnHandler == <<"h", "a", "n", "d", "l", "e", "r", ":", " ", "P", "R", "O", "C", "(", "i", "n", "p", "u", "t", " ", "I", "N", "T", ")", " ", "R", "E", "T", "U", "R", "N", "S", "(", "I", "N", "T", ")", ";">>

\* sub : PROC () RETURNS (BOOL);
LnSub == <<"s", "u", "b", " ", ":", " ", "P", "R", "O", "C", " ", "(", ")", " ", "R", "E", "T", "U", "R", "N", "S", " ", "(", "B", "O", "O", "L", ")", ";">>

\*   BEGIN
LnBegin == <<" ", " ", "B", "E", "G", "I", "N">>

\*   end sub;
LnEndLower == <<" ", " ", "e", "n", "d", " ", "s", "u", "b", ";">>

\* r: REGION
LnRegion == <<"r", ":", " ", "R", "E", "G", "I", "O", "N">>

\* the documents of one to n lines drawn from pool, as texts
RECURSIVE LineSeqs(_, _)
LineSeqs(pool, n) ==
  IF n = 0 THEN {<<>>}
  ELSE {<<l>> \o t : l \in pool, t \in LineSeqs(pool, n - 1)}

Documents(pool, n) ==
  {Join(ls, <<NL>>) : ls \in UNION {LineSeqs(pool, k) : k \in 1..n}}

-----------------------------------------------------------------------------
(* The parser as a state machine: ChillParser.parse on one source text      *)

NoRequest == [op |-> "none"]

NoResponse == [jsonrpc |-> "none"]

NoDocuments == [u \in {} |-> <<>>]

\* ChillLSPServer.models of a server without a parsed document
NoModels == [u \in {} |-> EmptyModel]

\* the state before parse(source) is called on a text of docs
InitParse(docs) ==
  /\ pc = "start"
  /\ source \in docs
  /\ clean = <<>>
  /\ lines = <<>>
  /\ idx = 0
  /\ model = EmptyModel
  /\ documents = NoDocuments
  /\ models = NoModels
  /\ request = NoRequest
  /\ response = NoResponse

\* parse without line 329: the model of the previous call is kept
ParseBeginKeepingModel ==
  /\ pc = "start"
  /\ model' = model
  /\ clean' = Preprocess(source)
  /\ lines' = SplitOn(Preprocess(source), NL)
  /\ idx' = 0
  /\ pc' = "scan"
  /\ UNCHANGED <<source, documents, models, request, response>>

\* parse: a fresh model, the comments removed, the cleaned text split into lines
ParseBegin ==
  /\ pc = "start"
  /\ model' = EmptyModel
  /\ clean' = Preprocess(source)
  /\ lines' = SplitOn(Preprocess(source), NL)
  /\ idx' = 0
  /\ pc' = "scan"
  /\ UNCHANGED <<source, documents, models, request, response>>

\* the loop body without the step of the loop index
ScanLineNotAdvancing ==
  /\ pc = "scan"
  /\ idx < Len(lines)
  /\ IF LineRaises(lines, idx)
     THEN pc' = "raised" /\ UNCHANGED <<model, idx>>
     ELSE /\ model' = ParseLine(model, lines, idx)
          /\ idx' = idx
          /\ pc' = pc
  /\ UNCHANGED <<source, clean, lines, documents, models, request, response>>

\* one iteration of the loop of _parse_declarations; an exception ends the parse
ScanLine ==
  /\ pc = "scan"
  /\ idx < Len(lines)
  /\ IF LineRaises(lines, idx)
     THEN pc' = "raised" /\ UNCHANGED <<model, idx>>
     ELSE /\ model' = ParseLine(model, lines, idx)
          /\ idx' = idx + 1
          /\ pc' = pc
  /\ UNCHANGED <<source, clean, lines, documents, models, request, response>>

\* the loop is over: parse returns the model
ParseReturn ==
  /\ pc = "scan"
  /\ idx = Len(lines)
  /\ pc' = "done"
  /\ UNCHANGED <<source, clean, lines, idx, model, documents, models, request, response>>

NextParse == ParseBegin \/ ScanLine \/ ParseReturn

-----------------------------------------------------------------------------
(* Comments and line numbers                                               *)

MaxCommentLines == 3

PoolComments ==
  {LnOpenComment, LnCloseComment, LnDclX, LnSynComment, LnCommentDclY, LnModeT}

InitComments == InitParse(Documents(PoolComments, MaxCommentLines))

SpecComments == InitComments /\ [][NextParse]_vars

\* line n (1-based) of the original text
SourceLine(n) == SplitOn(source, NL)[n]

\* C1: once the comments are stripped, the cleaned text has exactly as many
\* lines as the source text, block comments over several lines included.
C1_PreprocessKeepsLineCount ==
  pc # "start" => LineCount(clean) = LineCount(source)

\* the header of an entity stands on line n of the original text: the line
\* exists and holds the introducing key word and the entity's name
HeaderOnSourceLine(n, kws, name) ==
  /\ n \in 1..LineCount(source)
  /\ \E kw \in kws : Contains(Upper(SourceLine(n)), kw)
  /\ Contains(Upper(SourceLine(n)), Upper(name))

\* every entity of store d starts on the source line that holds its header
StoreLinesAreSourceLines(d, kws, attr) ==
  \A i \in 1..Len(d) : HeaderOnSourceLine(d[i].val[attr], kws, d[i].val.name)

\* C4: in the model parse returns, every entity's start line is the 1-based
\* number of the line of the original text that holds its header, wherever
\* comments stand before it.
C4_EntityLineIsSourceLine ==
  pc = "done" =>
    /\ StoreLinesAreSourceLines(model.dcls, {KwDCL}, "line_number")
    /\ StoreLinesAreSourceLines(model.modes, {KwNEWMODE, KwSYNMODE}, "line_number")
    /\ StoreLinesAreSourceLines(model.synonyms, {KwSYN}, "line_number")
    /\ StoreLinesAreSourceLines(model.procs, {KwPROC}, "line_start")
    /\ StoreLinesAreSourceLines(model.processes, {KwPROCESS}, "line_start")
    /\ StoreLinesAreSourceLines(model.modules, {KwMODULE}, "line_start")
    /\ StoreLinesAreSourceLines(model.signals, {KwSIGNAL}, "line_number")

-----------------------------------------------------------------------------
(* Malformed declarations                                                  *)

MaxDclLines == 3

PoolDcl == {LnDclBlank, LnDclBlankInit, LnDclInit, LnDclX, LnAssign}

InitDcl == InitParse(Documents(PoolDcl, MaxDclLines))

SpecDcl == InitDcl /\ [][NextParse]_vars

\* C2: parse never raises: whatever the text, a DCL line with a blank mode
\* text before ':=' or ';' included, no exception leaves the scan.
C2_ParseNeverRaises == pc # "raised"

-----------------------------------------------------------------------------
(* Modules, procedures, processes and the scope of declarations            *)

MaxScopeLines == 4

PoolScope == {LnModuleM, LnEnd, LnDclX, LnProcP, LnDclXBool, LnProcessW}

InitScope == InitParse(Documents(PoolScope, MaxScopeLines))

SpecScope == InitScope /\ [][NextParse]_vars

NameX == <<"x">>

NameP == <<"p">>

NameWorker == <<"w", "o", "r", "k", "e", "r">>

\* the blocks of the text that are open before line i (1-based), innermost
\* last: a MODULE header opens "module", the header of procedure p opens "p",
\* that of process worker "worker", and an END line closes the innermost block
RECURSIVE BlocksBefore(_, _)
BlocksBefore(ls, i) ==
  IF i <= 1 THEN <<>>
  ELSE LET open == BlocksBefore(ls, i - 1)
           l == ls[i - 1]
       IN  IF l = LnModuleM THEN Append(open, "module")
           ELSE IF l = LnProcP THEN Append(open, "p")
           ELSE IF l = LnProcessW THEN Append(open, "worker")
           ELSE IF l = LnEnd /\ open # <<>> THEN SubSeq(open, 1, Len(open) - 1)
           ELSE open

\* C3: a line "worker: PROCESS(id INT);" yields a Process entity worker in the
\* process store, with its parameter (id, INT, IN) and a body end line, and no
\* Procedure entity of that name.
C3_ProcessHeaderYieldsProcess ==
  pc = "done" =>
    \A i \in 1..Len(lines) :
      lines[i] = LnProcessW =>
        /\ DictHas(model.processes, NameWorker)
        /\ DictGet(model.processes, NameWorker).parameters
             = << <<<<"i", "d">>, <<"I", "N", "T">>, KwIN>> >>
        /\ DictGet(model.processes, NameWorker).line_end
             \in DictGet(model.processes, NameWorker).line_start..Len(lines)
        /\ ~DictHas(model.procs, NameWorker)

\* the scope a declaration on line i lies in: the module when one is open
\* there (the scanner records module names in upper case), else GLOBAL
LexicalScope(ls, i) ==
  IF \E k \in 1..Len(BlocksBefore(ls, i)) : BlocksBefore(ls, i)[k] = "module"
  THEN <<"M">> ELSE GLOBAL

IsDclOfX(l) == l \in {LnDclX, LnDclXBool}

\* C9: a MODULE header qualifies declarations only inside the module: a DCL
\* after the module's matching END is recorded with the scope that was active
\* before the header, GLOBAL when there is none.
C9_ModuleScopeEndsAtItsEnd ==
  pc = "done" =>
    \A i \in 1..Len(lines) :
      (/\ IsDclOfX(lines[i])
       /\ DictHas(model.dcls, NameX)
       /\ DictGet(model.dcls, NameX).line_number = i)
      => DictGet(model.dcls, NameX).parent_scope = Some(LexicalScope(lines, i))

\* C10: when x is declared once at global scope (line g) and once inside
\* procedure p (line l), the finished model holds both: the global one under
\* "x" and the one of p under "p.x".
C10_GlobalAndLocalBothKept ==
  pc = "done" =>
    \A g, l \in 1..Len(lines) :
      (/\ IsDclOfX(lines[g]) /\ BlocksBefore(lines, g) = <<>>
       /\ IsDclOfX(lines[l]) /\ BlocksBefore(lines, l) = <<"p">>
       /\ \A k \in 1..Len(lines) : IsDclOfX(lines[k]) => k \in {g, l})
      => /\ DictHas(model.dcls, NameX)
         /\ DictGet(model.dcls, NameX).line_number = g
         /\ DictHas(model.dcls, Qualified(NameP, NameX))
         /\ DictGet(model.dcls, Qualified(NameP, NameX)).line_number = l

-----------------------------------------------------------------------------
(* Parameter lists: _parse_parameters as a call                             *)

\* count INT
PrmCount == <<"c", "o", "u", "n", "t", " ", "I", "N", "T">>

\* timeout INT: no direction key word, the name holds the letters OUT
PrmTimeout == <<"t", "i", "m", "e", "o", "u", "t", " ", "I", "N", "T">>

\* IN a INT
PrmIn == <<"I", "N", " ", "a", " ", "I", "N", "T">>

\* OUT b BOOL
PrmOut == <<"O", "U", "T", " ", "b", " ", "B", "O", "O", "L">>

\* INOUT c INT
PrmInout == <<"I", "N", "O", "U", "T", " ", "c", " ", "I", "N", "T">>

\* d out REAL
PrmLowerOut == <<"d", " ", "o", "u", "t", " ", "R", "E", "A", "L">>

\* e
PrmBare == <<"e">>

\* input CHAR
PrmInput == <<" ", "i", "n", "p", "u", "t", " ", "C", "H", "A", "R">>

PoolParams ==
  {PrmCount, PrmTimeout, PrmIn, PrmOut, PrmInout, PrmLowerOut, PrmBare, PrmInput}

MaxParams == 2

\* the parameter texts of one to MaxParams entries, separated by commas
ParamTexts == {Join(es, <<",">>) : es \in UNION {LineSeqs(PoolParams, k) : k \in 1..MaxParams}}

InitParams ==
  /\ pc = "call"
  /\ request \in {[op |-> "parse_parameters", params_str |-> t] : t \in ParamTexts}
  /\ response = NoResponse
  /\ source = <<>>
  /\ clean = <<>>
  /\ lines = <<>>
  /\ idx = 0
  /\ model = EmptyModel
  /\ documents = NoDocuments
  /\ models = NoModels

\* the call of _parse_parameters and its return
CallParseParameters ==
  /\ pc = "call"
  /\ request.op = "parse_parameters"
  /\ response' = ParseParameters(request.params_str)
  /\ pc' = "returned"
  /\ UNCHANGED <<source, clean, lines, idx, model, documents, models, request>>

NextParams == CallParseParameters

SpecParams == InitParams /\ [][NextParams]_vars

\* a direction key word is present in an entry: one of its tokens is the key
\* word, in either case
KeywordPresent(entry, kw) ==
  \E k \in 1..Len(Tokens(entry)) : Upper(Tokens(entry)[k]) = kw

\* the direction an entry asks for
DirectionOf(entry) ==
  IF KeywordPresent(entry, KwINOUT) THEN KwINOUT
  ELSE IF KeywordPresent(entry, KwOUT) THEN KwOUT
  ELSE KwIN

\* C8: every entry's direction is INOUT if the key word INOUT is present, else
\* OUT if the key word OUT is present, else IN; an entry without a direction
\* key word has direction IN and keeps its name and its mode.
C8_DirectionFromKeywordOnly ==
  (pc = "returned" /\ request.op = "parse_parameters") =>
    LET entries == SplitOn(request.params_str, ",")
    IN  /\ Len(response) = Len(entries)
        /\ \A k \in 1..Len(entries) :
             LET toks == Tokens(entries[k])
             IN  /\ response[k][3] = DirectionOf(entries[k])
                 /\ (\A kw \in {KwIN, KwOUT, KwINOUT} : ~KeywordPresent(entries[k], kw))
                    => /\ response[k][1] = toks[1]
                       /\ response[k][2] = IF Len(toks) >= 2 THEN toks[Len(toks)]
                                           ELSE KwUNKNOWN

-----------------------------------------------------------------------------
(* Procedure headers and the extent of their bodies                        *)

MaxBodyLines == 4

PoolBody == {LnHandler, LnSub, LnProcessW, LnRegion, LnBegin, LnEndLower, LnDclXBool}

InitBody == InitParse(Documents(PoolBody, MaxBodyLines))

SpecBody == InitBody /\ [][NextParse]_vars

\* what a line of PoolBody does to the nesting depth: the headers of nested
\* constructs and BEGIN lines open a block, END lines close one
BodyDelta(l) ==
  IF l \in {LnHandler, LnSub, LnProcessW, LnRegion, LnBegin} THEN 1
  ELSE IF l \in {LnEnd, LnEndLower} THEN -1
  ELSE 0

\* the depth counter after line k, started at 1 on the header line h
RECURSIVE DepthAfter(_, _, _)
DepthAfter(ls, h, k) ==
  IF k <= h THEN 1 ELSE DepthAfter(ls, h, k - 1) + BodyDelta(ls[k])

\* the later lines at which the depth counter of header line h is 0
ClosingLines(ls, h) == {e \in (h + 1)..Len(ls) : DepthAfter(ls, h, e) = 0}

\* the matching END of header line h: the first of them
MatchingEnd(ls, h) ==
  CHOOSE e \in ClosingLines(ls, h) : \A f \in ClosingLines(ls, h) : e <= f

\* the procedure headers of PoolBody with what they declare
HeaderFacts ==
  {[line |-> LnHandler, name |-> <<"h", "a", "n", "d", "l", "e", "r">>,
    parameters |-> << <<<<"i", "n", "p", "u", "t">>, <<"I", "N", "T">>, KwIN>> >>,
    returns |-> <<"I", "N", "T">>],
   [line |-> LnSub, name |-> <<"s", "u", "b">>,
    parameters |-> <<>>,
    returns |-> <<"B", "O", "O", "L">>]}

\* line h is the last header of its procedure in the text (a later header of
\* the same name replaces the entity)
LastHeader(ls, h) == \A k \in (h + 1)..Len(ls) : ls[k] # ls[h]

\* C7: for a header "name: PROC(...) RETURNS(m);" whose body is closed by its
\* matching END, the Procedure entity has returns_mode m, the parsed parameters
\* and line_end the line of that END: the first later line at which the depth
\* counter, 1 at the header, +1 for nested headers and BEGIN, -1 for END, is 0.
C7_ProcedureEndsAtMatchingEnd ==
  pc = "done" =>
    \A h \in 1..Len(lines) : \A f \in HeaderFacts :
      (lines[h] = f.line /\ LastHeader(lines, h) /\ ClosingLines(lines, h) # {})
      => /\ DictHas(model.procs, f.name)
         /\ DictGet(model.procs, f.name).line_start = h
         /\ DictGet(model.procs, f.name).returns_mode = Some(f.returns)
         /\ DictGet(model.procs, f.name).parameters = f.parameters
         /\ DictGet(model.procs, f.name).line_end = MatchingEnd(lines, h)

\* a parse is done in which handler's body holds a nested block, so that its
\* matching END is not the first END after the header
C7_Witness ==
  /\ pc = "done"
  /\ \E h \in 1..Len(lines) :
       /\ lines[h] = LnHandler /\ LastHeader(lines, h)
       /\ ClosingLines(lines, h) # {}
       /\ \E e \in (h + 1)..(MatchingEnd(lines, h) - 1) : BodyDelta(lines[e]) = -1
       /\ DictHas(model.procs, <<"h", "a", "n", "d", "l", "e", "r">>)
       /\ DictGet(model.procs, <<"h", "a", "n", "d", "l", "e", "r">>).line_end
            = MatchingEnd(lines, h)

-----------------------------------------------------------------------------
(* Completion: get_completions_at_position as a call on a parsed model      *)

\* DCL count INT;
LnDclCount == <<"D", "C", "L", " ", "c", "o", "u", "n", "t", " ", "I", "N", "T", ";">>

\* NEWMODE Counter = INT;
LnModeCounter == <<"N", "E", "W", "M", "O", "D", "E", " ", "C", "o", "u", "n", "t", "e", "r", " ", "=", " ", "I", "N", "T", ";">>

\* calc: PROC();
LnProcCalc == <<"c", "a", "l", "c", ":", " ", "P", "R", "O", "C", "(", ")", ";">>

\* SYN c_max = 5;
LnSynCMax == <<"S", "Y", "N", " ", "c", "_", "m", "a", "x", " ", "=", " ", "5", ";">>

\* MODULE cm;
LnModuleCm == <<"M", "O", "D", "U", "L", "E", " ", "c", "m", ";">>

\* SIGNAL cs;
LnSignalCs == <<"S", "I", "G", "N", "A", "L", " ", "c", "s", ";">>

\* the line under the cursor: x:=co
CurAssign == <<"x", ":", "=", "c", "o">>

\* the line under the cursor: a.CA
CurDot == <<"a", ".", "C", "A">>

\* the line under the cursor: c_m+1
CurUnder == <<"c", "_", "m", "+", "1">>

\* the line under the cursor: an empty line
CurEmpty == <<>>

PoolCompletion ==
  {LnDclCount, LnModeCounter, LnProcCalc, LnSynCMax, LnModuleCm, LnSignalCs}

CursorLines == {CurAssign, CurDot, CurUnder, CurEmpty}

MaxCompletionLines == 3

MaxColumn == 6

\* the state after parse(source) returned, with a completion request at hand
InitCompletion ==
  /\ pc = "call"
  /\ source \in Documents(PoolCompletion, MaxCompletionLines)
  /\ clean = Preprocess(source)
  /\ lines = SplitOn(Preprocess(source), NL)
  /\ idx = Len(lines)
  /\ model = Parse(source).model
  /\ documents = NoDocuments
  /\ models = NoModels
  /\ request \in {[op |-> "completion", line |-> l, column |-> c] :
                    l \in CursorLines, c \in 0..MaxColumn}
  /\ response = NoResponse

\* the call of get_completions_at_position and its return
CallGetCompletions ==
  /\ pc = "call"
  /\ request.op = "completion"
  /\ response' = GetCompletions(model, request.line, request.column)
  /\ pc' = "returned"
  /\ UNCHANGED <<source, clean, lines, idx, model, documents, models, request>>

NextCompletion == CallGetCompletions

SpecCompletion == InitCompletion /\ [][NextCompletion]_vars

\* the identifier characters of the line at the 0-based positions
\* column - k .. column - 1
IsRunBefore(line, column, k) ==
  /\ k <= column
  /\ \A j \in (column - k + 1)..column : j <= Len(line) /\ IsWordChar(line[j])

\* the maximal run of identifier characters immediately before the cursor
IdentifierRun(line, column) ==
  LET ks == {k \in 0..column : IsRunBefore(line, column, k)}
      n == CHOOSE k \in ks : \A j \in ks : j <= k
  IN  SubSeq(line, column - n + 1, column)

\* the names a model defines: declaration, mode, procedure and synonym names
DefinedNames(m) ==
  {m.dcls[i].val.name : i \in 1..Len(m.dcls)}
  \cup {m.modes[i].val.name : i \in 1..Len(m.modes)}
  \cup {m.procs[i].val.name : i \in 1..Len(m.procs)}
  \cup {m.synonyms[i].val.name : i \in 1..Len(m.synonyms)}

\* C5: with P the maximal run of identifier characters immediately before the
\* cursor, the names returned are exactly the reserved words, predefined names
\* and defined names whose upper-cased form starts with the upper-cased P.
C5_CompletionsHavePrefix ==
  (pc = "returned" /\ request.op = "completion") =>
    LET P == Upper(IdentifierRun(request.line, request.column))
    IN  {r[1] : r \in response}
          = {n \in CHILL_RESERVED_WORDS \cup CHILL_PREDEFINED \cup DefinedNames(model) :
               StartsWith(Upper(n), P)}

\* completion was asked after the lower-case letters "co" and offers the
\* variable count, the mode Counter and a reserved word
C5_Witness ==
  /\ pc = "returned"
  /\ request.op = "completion"
  /\ IdentifierRun(request.line, request.column) = <<"c", "o">>
  /\ <<"c", "o", "u", "n", "t">> \in {r[1] : r \in response}
  /\ <<"C", "o", "u", "n", "t", "e", "r">> \in {r[1] : r \in response}
  /\ {r[1] : r \in response} \cap CHILL_RESERVED_WORDS # {}
  /\ <<"c", "a", "l", "c">> \in DefinedNames(model) \ {r[1] : r \in response}

-----------------------------------------------------------------------------
(* References: _handle_references as a request to the server                *)

\* Count accounting
RefCountAcc == <<"C", "o", "u", "n", "t", " ", "a", "c", "c", "o", "u", "n", "t", "i", "n", "g">>

\* count;_count
RefCountSemi == <<"c", "o", "u", "n", "t", ";", "_", "c", "o", "u", "n", "t">>

\* x COUNT count9
RefXCount == <<"x", " ", "C", "O", "U", "N", "T", " ", "c", "o", "u", "n", "t", "9">>

\* an empty line
RefEmpty == <<>>

\* count \xe9count : the second count follows a letter outside ASCII
RefAccent == <<"c", "o", "u", "n", "t", " ", "\\xe9", "c", "o", "u", "n", "t">>

\* \u03b9 a\u0345b : a iota, and between two letters the combining iota
\* U+0345, which is no letter and which a iota matches when case is ignored
RefIota == <<"\\u03b9", " ", "a", "\\u0345", "b">>

PoolRefs == {RefCountAcc, RefCountSemi, RefXCount, RefEmpty, RefAccent, RefIota}

UriA == "file:///a.chl"

UriB == "file:///b.chl"

MaxRefLines == 2

MaxRefChar == 8

\* the server holds one open document; a references request is at hand
InitReferences ==
  /\ pc = "call"
  /\ documents \in {[u \in {UriA} |-> t] : t \in Documents(PoolRefs, MaxRefLines)}
  /\ models = [u \in DOMAIN documents |-> Parse(documents[u]).model]
  /\ request \in {[op |-> "references", id |-> 1, uri |-> u, line |-> l, character |-> c] :
                    u \in {UriA, UriB}, l \in 0..MaxRefLines, c \in 0..MaxRefChar}
  /\ response = NoResponse
  /\ source = <<>>
  /\ clean = <<>>
  /\ lines = <<>>
  /\ idx = 0
  /\ model = EmptyModel

\* the request textDocument/references and its response
CallReferences ==
  /\ pc = "call"
  /\ request.op = "references"
  /\ response' = HandleReferences(documents, request.id, request.uri,
                                  request.line, request.character)
  /\ pc' = "returned"
  /\ UNCHANGED <<source, clean, lines, idx, model, documents, models, request>>

NextReferences == CallReferences

SpecReferences == InitReferences /\ [][NextReferences]_vars

\* w occurs in the line at the 0-based column c, whatever the case of letters
OccursAt(line, w, c) ==
  /\ c + Len(w) <= Len(line)
  /\ Upper(SubSeq(line, c + 1, c + Len(w))) = Upper(w)

\* the occurrence is delimited by a non-identifier character or a line
\* boundary on both sides
Delimited(line, w, c) ==
  /\ (c = 0 \/ ~IsWordChar(line[c]))
  /\ (c + Len(w) = Len(line) \/ ~IsWordChar(line[c + Len(w) + 1]))

\* the locations of the whole-word occurrences of w in the lines ls
WholeWordLocations(uri, ls, w) ==
  UNION {{Location(uri, i - 1, c, c + Len(w)) :
            c \in {d \in 0..Len(ls[i]) : OccursAt(ls[i], w, d) /\ Delimited(ls[i], w, d)}} :
         i \in 1..Len(ls)}

\* C6: the references to the word w under the cursor are a location for every
\* occurrence of w delimited by non-identifier characters or line boundaries,
\* in either case, and for no other text; each carries the 0-based line and
\* the start and end columns of the match, and none is reported twice.
C6_ReferencesAreWholeWords ==
  (pc = "returned" /\ request.op = "references" /\ request.uri \in DOMAIN documents) =>
    LET text == documents[request.uri]
        w == GetWordAtPosition(text, request.line, request.character)
        res == response.result
    IN  w # <<>> =>
          /\ {res[k] : k \in 1..Len(res)} = WholeWordLocations(request.uri, SplitOn(text, NL), w)
          /\ \A j, k \in 1..Len(res) : j # k => res[j] # res[k]

-----------------------------------------------------------------------------
(* Hover: get_hover_info                                                   *)

\* the members of ChillMode with the characters of their values
ModeValues ==
  << <<"INT", <<"I", "N", "T">>>>,
     <<"BOOL", <<"B", "O", "O", "L">>>>,
     <<"CHAR", <<"C", "H", "A", "R">>>>,
     <<"CHARS", <<"C", "H", "A", "R", "S">>>>,
     <<"BOOLS", <<"B", "O", "O", "L", "S">>>>,
     <<"SET", <<"S", "E", "T">>>>,
     <<"RANGE", <<"R", "A", "N", "G", "E">>>>,
     <<"POWERSET", <<"P", "O", "W", "E", "R", "S", "E", "T">>>>,
     <<"REF", <<"R", "E", "F">>>>,
     <<"STRUCT", <<"S", "T", "R", "U", "C", "T">>>>,
     <<"ARRAY", <<"A", "R", "R", "A", "Y">>>>,
     <<"PROC", <<"P", "R", "O", "C">>>>,
     <<"PROCESS", <<"P", "R", "O", "C", "E", "S", "S">>>>,
     <<"BUFFER", <<"B", "U", "F", "F", "E", "R">>>>,
     <<"EVENT", <<"E", "V", "E", "N", "T">>>>,
     <<"SIGNAL", <<"S", "I", "G", "N", "A", "L">>>>,
     <<"ASSOCIATION", <<"A", "S", "S", "O", "C", "I", "A", "T", "I", "O", "N">>>>,
     <<"ACCESS", <<"A", "C", "C", "E", "S", "S">>>>,
     <<"TEXT", <<"T", "E", "X", "T">>>>,
     <<"DURATION", <<"D", "U", "R", "A", "T", "I", "O", "N">>>>,
     <<"TIME", <<"T", "I", "M", "E">>>>,
     <<"USER_DEFINED", <<"U", "S", "E", "R">>>>,
     <<"UNKNOWN", <<"U", "N", "K", "N", "O", "W", "N">>>> >>

\* ChillMode.value as text
ModeValueText(mode) ==
  ModeValues[CHOOSE i \in 1..Len(ModeValues) : ModeValues[i][1] = mode][2]

\* str(n) of a natural number
RECURSIVE NatToText(_)
NatToText(n) ==
  IF n < 10 THEN <<ToString(n)>> ELSE NatToText(n \div 10) \o <<ToString(n % 10)>>

\* str(n) of an integer
IntToText(n) == IF n < 0 THEN <<"-">> \o NatToText(0 - n) ELSE NatToText(n)

\* the truth value of an Optional[str]: neither None nor ''
Truthy(o) == o # None /\ TheValue(o) # <<>>

\* f"**{word}** - " followed by the text of a category
HoverHead(word, rest) == <<"*", "*">> \o word \o <<"*", "*", " ", "-", " ">> \o rest

\* the DCL branch: mode value, user mode name, initial value
HoverDcl(word, dcl) ==
  HoverHead(word, <<"D", "C", "L", " ">> \o ModeValueText(dcl.mode))
  \o (IF Truthy(dcl.mode_name) THEN <<" ", "(">> \o TheValue(dcl.mode_name) \o <<")">> ELSE <<>>)
  \o (IF Truthy(dcl.initial_value)
      THEN <<NL, NL, "I", "n", "i", "t", "i", "a", "l", " ", "v", "a", "l", "u", "e", ":", " ">> \o TheValue(dcl.initial_value) ELSE <<>>)

\* the mode branch: base mode, SET values, RANGE bounds, STRUCT field names
HoverMode(word, mode) ==
  HoverHead(word, <<"N", "E", "W", "M", "O", "D", "E", " ">> \o ModeValueText(mode.base_mode))
  \o (IF mode.enum_values # <<>>
      THEN <<NL, NL, "V", "a", "l", "u", "e", "s", ":", " ">> \o Join(mode.enum_values, <<",", " ">>) ELSE <<>>)
  \o (IF mode.range_low # None
      THEN <<NL, NL, "R", "a", "n", "g", "e", ":", " ">> \o IntToText(TheValue(mode.range_low)) \o <<":">>
           \o IntToText(TheValue(mode.range_high))
      ELSE <<>>)
  \o (IF mode.fields # <<>>
      THEN <<NL, NL, "F", "i", "e", "l", "d", "s", ":", " ">> \o Join([k \in 1..Len(mode.fields) |-> mode.fields[k].key], <<",", " ">>) ELSE <<>>)

\* the procedure branch: "name direction mode" of every parameter, RETURNS
HoverProc(word, proc) ==
  HoverHead(word, <<"P", "R", "O", "C", "(">>
    \o Join([k \in 1..Len(proc.parameters) |->
               proc.parameters[k][1] \o <<" ">> \o proc.parameters[k][3] \o <<" ">>
               \o proc.parameters[k][2]], <<",", " ">>)
    \o <<")">>)
  \o (IF Truthy(proc.returns_mode)
      THEN <<" ", "R", "E", "T", "U", "R", "N", "S", "(">> \o TheValue(proc.returns_mode) \o <<")">> ELSE <<>>)

\* the lookup order with the model consulted before the word tables
GetHoverInfoModelFirst(m, word) ==
  IF GetDcl(m, word) # None THEN Some(HoverDcl(word, TheValue(GetDcl(m, word))))
  ELSE IF GetMode(m, word) # None THEN Some(HoverMode(word, TheValue(GetMode(m, word))))
  ELSE IF GetProc(m, word) # None THEN Some(HoverProc(word, TheValue(GetProc(m, word))))
  ELSE IF DictHas(m.synonyms, word)
  THEN Some(HoverHead(word, <<"S", "Y", "N", " ", "=", " ">> \o DictGet(m.synonyms, word).value))
  ELSE IF Upper(word) \in CHILL_RESERVED_WORDS
  THEN Some(HoverHead(word, <<"C", "H", "I", "L", "L", " ", "r", "e", "s", "e", "r", "v", "e", "d", " ", "w", "o", "r", "d">>))
  ELSE IF Upper(word) \in CHILL_PREDEFINED
  THEN Some(HoverHead(word, <<"C", "H", "I", "L", "L", " ", "p", "r", "e", "d", "e", "f", "i", "n", "e", "d", " ", "n", "a", "m", "e">>))
  ELSE None

\* get_hover_info: reserved word, predefined name, DCL, mode, procedure, synonym
\* get_hover_info that answers a miss with a description
GetHoverInfoAlwaysText(m, word) ==
  IF GetHoverInfoModelFirst(m, word) # None THEN GetHoverInfoModelFirst(m, word)
  ELSE IF Upper(word) \in CHILL_RESERVED_WORDS \cup CHILL_PREDEFINED
  THEN Some(HoverHead(word, <<>>))
  ELSE Some(HoverHead(word, <<"u", "n", "k", "n", "o", "w", "n">>))

GetHoverInfo(m, word) ==
  IF Upper(word) \in CHILL_RESERVED_WORDS
  THEN Some(HoverHead(word, <<"C", "H", "I", "L", "L", " ", "r", "e", "s", "e", "r", "v", "e", "d", " ", "w", "o", "r", "d">>))
  ELSE IF Upper(word) \in CHILL_PREDEFINED
  THEN Some(HoverHead(word, <<"C", "H", "I", "L", "L", " ", "p", "r", "e", "d", "e", "f", "i", "n", "e", "d", " ", "n", "a", "m", "e">>))
  ELSE IF GetDcl(m, word) # None THEN Some(HoverDcl(word, TheValue(GetDcl(m, word))))
  ELSE IF GetMode(m, word) # None THEN Some(HoverMode(word, TheValue(GetMode(m, word))))
  ELSE IF GetProc(m, word) # None THEN Some(HoverProc(word, TheValue(GetProc(m, word))))
  ELSE IF DictHas(m.synonyms, word)
  THEN Some(HoverHead(word, <<"S", "Y", "N", " ", "=", " ">> \o DictGet(m.synonyms, word).value))
  ELSE None

\* DCL module INT;
HvDclModule == <<"D", "C", "L", " ", "m", "o", "d", "u", "l", "e", " ", "I", "N", "T", ";">>

\* DCL x INT;
HvDclX == <<"D", "C", "L", " ", "x", " ", "I", "N", "T", ";">>

\* NEWMODE x = RANGE(-5:9);
HvModeX == <<"N", "E", "W", "M", "O", "D", "E", " ", "x", " ", "=", " ", "R", "A", "N", "G", "E", "(", "-", "5", ":", "9", ")", ";">>

\* x: PROC(IN a INT) RETURNS(BOOL);
HvProcX == <<"x", ":", " ", "P", "R", "O", "C", "(", "I", "N", " ", "a", " ", "I", "N", "T", ")", " ", "R", "E", "T", "U", "R", "N", "S", "(", "B", "O", "O", "L", ")", ";">>

\* SYN x = 1;
HvSynX == <<"S", "Y", "N", " ", "x", " ", "=", " ", "1", ";">>

\* NEWMODE abs = INT;
HvModeAbs == <<"N", "E", "W", "M", "O", "D", "E", " ", "a", "b", "s", " ", "=", " ", "I", "N", "T", ";">>

PoolHover == {HvDclModule, HvDclX, HvModeX, HvProcX, HvSynX, HvModeAbs}

\* the words hovered: a reserved word in two cases, a name the documents
\* define in several kinds, that name in upper case, a predefined name and a
\* word that is nothing
HoverWords == {<<"m", "o", "d", "u", "l", "e">>, <<"M", "O", "D", "U", "L", "E">>, <<"x">>, <<"X">>, <<"a", "b", "s">>, <<"z", "z">>}

MaxHoverLines == 3

\* the state after parse(source) returned, with a word to look up
InitHover ==
  /\ pc = "call"
  /\ source \in Documents(PoolHover, MaxHoverLines)
  /\ clean = Preprocess(source)
  /\ lines = SplitOn(Preprocess(source), NL)
  /\ idx = Len(lines)
  /\ model = Parse(source).model
  /\ documents = NoDocuments
  /\ models = NoModels
  /\ request \in {[op |-> "hover_info", word |-> w] : w \in HoverWords}
  /\ response = NoResponse

\* the call of get_hover_info and its return
CallGetHoverInfo ==
  /\ pc = "call"
  /\ request.op = "hover_info"
  /\ response' = GetHoverInfo(model, request.word)
  /\ pc' = "returned"
  /\ UNCHANGED <<source, clean, lines, idx, model, documents, models, request>>

NextHover == CallGetHoverInfo

SpecHover == InitHover /\ [][NextHover]_vars

\* the first category of the fixed order in which the word is found
HoverCategory(m, w) ==
  IF Upper(w) \in CHILL_RESERVED_WORDS THEN "reserved"
  ELSE IF Upper(w) \in CHILL_PREDEFINED THEN "predefined"
  ELSE IF DictHas(m.dcls, w) THEN "dcl"
  ELSE IF DictHas(m.modes, w) THEN "mode"
  ELSE IF DictHas(m.procs, w) THEN "proc"
  ELSE IF DictHas(m.synonyms, w) THEN "synonym"
  ELSE "none"

\* how the description of each category begins; that of the two word tables
\* is the whole description
CategoryText(w, category) ==
  <<"*", "*">> \o w \o <<"*", "*", " ", "-", " ">> \o
  CASE category = "reserved" -> <<"C", "H", "I", "L", "L", " ", "r", "e", "s", "e", "r", "v", "e", "d", " ", "w", "o", "r", "d">>
    [] category = "predefined" -> <<"C", "H", "I", "L", "L", " ", "p", "r", "e", "d", "e", "f", "i", "n", "e", "d", " ", "n", "a", "m", "e">>
    [] category = "dcl" -> <<"D", "C", "L", " ">>
    [] category = "mode" -> <<"N", "E", "W", "M", "O", "D", "E", " ">>
    [] category = "proc" -> <<"P", "R", "O", "C", "(">>
    [] category = "synonym" -> <<"S", "Y", "N", " ", "=", " ">>

\* C11: get_hover_info returns the description of the first category, in the
\* order reserved word, predefined name, declaration, mode, procedure,
\* synonym, that holds the word; a reserved word has the same reserved-word
\* description whatever the model defines.
C11_HoverPrecedence ==
  (pc = "returned" /\ request.op = "hover_info") =>
    LET w == request.word
        category == HoverCategory(model, w)
    IN  /\ category = "none" => response = None
        /\ category # "none" =>
             /\ response # None
             /\ StartsWith(TheValue(response), CategoryText(w, category))
        /\ category \in {"reserved", "predefined"} =>
             /\ response = Some(CategoryText(w, category))
             /\ response = GetHoverInfo(EmptyModel, w)

\* the reserved word module was hovered in a document that declares a
\* variable of that name, and the reserved-word description was returned
C11_Witness ==
  /\ pc = "returned"
  /\ request.op = "hover_info"
  /\ request.word = <<"m", "o", "d", "u", "l", "e">>
  /\ DictHas(model.dcls, <<"m", "o", "d", "u", "l", "e">>)
  /\ response = Some(<<"*", "*", "m", "o", "d", "u", "l", "e", "*", "*", " ", "-", " ", "C", "H", "I", "L", "L", " ", "r", "e", "s", "e", "r", "v", "e", "d", " ", "w", "o", "r", "d">>)

\* the names the model defines as declaration, mode, procedure or synonym
\* that differ from the word in letter case at most
SameNameIgnoringCase(d, w) == {n \in DictKeys(d) : Upper(n) = Upper(w)}

\* C12: a lookup with a word that differs from a defined name in letter case
\* only finds the entity: get_dcl, get_mode, get_proc and hover.
C12_LookupIgnoresCase ==
  (pc = "returned" /\ request.op = "hover_info") =>
    LET w == request.word
    IN  /\ SameNameIgnoringCase(model.dcls, w) # {} => GetDcl(model, w) # None
        /\ SameNameIgnoringCase(model.modes, w) # {} => GetMode(model, w) # None
        /\ SameNameIgnoringCase(model.procs, w) # {} => GetProc(model, w) # None
        /\ (\E d \in {model.dcls, model.modes, model.procs, model.synonyms} :
              SameNameIgnoringCase(d, w) # {}) => response # None

-----------------------------------------------------------------------------
(* One ChillParser instance parsing one text after another                 *)

MaxReparseLines == 2

PoolReparse == {LnModuleM, LnDclX, LnProcP, LnDclBlank}

\* the caller parses a text, then another one, then the first again, with the
\* same instance; response holds what the calls so far returned
InitReparse ==
  /\ pc = "start"
  /\ request \in {[op |-> "parse", texts |-> <<a, b, a>>] :
                    a, b \in Documents(PoolReparse, MaxReparseLines)}
  /\ source = request.texts[1]
  /\ clean = <<>>
  /\ lines = <<>>
  /\ idx = 0
  /\ model = EmptyModel
  /\ documents = NoDocuments
  /\ models = NoModels
  /\ response = <<>>

\* the caller keeps what parse returned (or that it raised) and calls parse
\* on the next text; the instance still holds the model of the last call
ParseNext ==
  /\ pc \in {"done", "raised"}
  /\ request.op = "parse"
  /\ Len(response) + 1 < Len(request.texts)
  /\ response' = Append(response, IF pc = "raised" THEN [raised |-> TRUE]
                                  ELSE [raised |-> FALSE, model |-> model])
  /\ source' = request.texts[Len(response) + 2]
  /\ pc' = "start"
  /\ UNCHANGED <<clean, lines, idx, model, documents, models, request>>

NextReparse == ParseBegin \/ ScanLine \/ ParseReturn \/ ParseNext

SpecReparse == InitReparse /\ [][NextReparse]_vars

\* C13: parsing a text again, with the same instance and whatever was parsed
\* in between, or with a fresh instance, gives a model with the same
\* entities, attributes and scope state.
C13_ParseIsIdempotent ==
  (pc = "done" /\ request.op = "parse") =>
    /\ model = Parse(source).model
    /\ \A j \in 1..Len(response) :
         (request.texts[j] = source /\ ~response[j].raised)
         => response[j].model = model

\* the third call is done: the first text was parsed again after another text
\* that gave another model, and it declares something inside a module
C13_Witness ==
  /\ pc = "done"
  /\ request.op = "parse"
  /\ Len(response) = 2
  /\ request.texts[1] = source
  /\ ~response[1].raised /\ ~response[2].raised
  /\ response[2].model # model
  /\ response[2].model.dcls # <<>>
  /\ model.dcls # <<>>
  /\ model.current_scope # GLOBAL

-----------------------------------------------------------------------------
(* Termination of the scan and the number of entities                      *)

\* NEWMODE pt = STRUCT(a INT, b INT);
LnModePt == <<"N", "E", "W", "M", "O", "D", "E", " ", "p", "t", " ", "=", " ", "S", "T", "R", "U", "C", "T", "(", "a", " ", "I", "N", "T", ",", " ", "b", " ", "I", "N", "T", ")", ";">>

MaxEntityLines == 3

PoolEntities ==
  {LnModuleM, LnDclX, LnCommentDclY, LnModePt, LnHandler, LnOpenComment,
   LnCloseComment, LnDclBlank, LnSynComment}

InitEntities == InitParse(Documents(PoolEntities, MaxEntityLines))

\* parse is one sequential call: once called it keeps running, so each of its
\* steps is taken when it can be.  For the first two steps weak fairness is
\* written with the guard of the step in place of ENABLED.
FairBegin == []<>(pc # "start") \/ []<><<ParseBegin>>_vars

FairScan == []<>(~(pc = "scan" /\ idx < Len(lines))) \/ []<><<ScanLine>>_vars

SpecEntities ==
  /\ InitEntities
  /\ [][NextParse]_vars
  /\ FairBegin
  /\ FairScan
  /\ WF_vars(ParseReturn)

\* the entities of one store: a declaration kept under two keys is one entity
EntitiesOf(d) == {d[i].val : i \in 1..Len(d)}

\* the number of entities of a model, over its seven stores
EntityCount(m) ==
  Cardinality(EntitiesOf(m.dcls)) + Cardinality(EntitiesOf(m.modes))
  + Cardinality(EntitiesOf(m.synonyms)) + Cardinality(EntitiesOf(m.procs))
  + Cardinality(EntitiesOf(m.processes)) + Cardinality(EntitiesOf(m.modules))
  + Cardinality(EntitiesOf(m.signals))

\* C14: for every document the scan comes to an end (parse returns, or the
\* loop is left by an exception): each iteration moves on to the next line and
\* the index never passes the last one.  Every line adds at most one entity,
\* and the model returned holds at most as many entities as the document has
\* lines.
C14_ScanTerminatesBounded ==
  /\ <>(pc \in {"done", "raised"})
  /\ [][pc = "scan" /\ pc' = "scan" => idx' = idx + 1]_vars
  /\ [](pc = "scan" => idx <= Len(lines))
  /\ [][pc = "scan" => EntityCount(model') <= EntityCount(model) + 1]_vars
  /\ [](pc = "done" => EntityCount(model) <= LineCount(source))

\* a parse is done whose model holds one entity for each of three lines or
\* more, one of them a declaration kept under two keys
C14_Witness ==
  /\ pc = "done"
  /\ LineCount(source) >= 3
  /\ EntityCount(model) = LineCount(source)
  /\ Len(model.dcls) > Cardinality(EntitiesOf(model.dcls))


-----------------------------------------------------------------------------
\* Range modes: NEWMODE / SYNMODE name = RANGE(lo:hi)

RgCounter == <<"N", "E", "W", "M", "O", "D", "E", " ", "c", "o", "u", "n", "t", "e", "r", " ", "=", " ", "R", "A", "N", "G", "E", "(", "0", ":", "6", "5", "5", "3", "5", ")", ";">>
RgNegB == <<"S", "Y", "N", "M", "O", "D", "E", " ", "b", " ", "=", " ", "R", "A", "N", "G", "E", "(", "-", "5", ":", "-", "1", ")", ";">>
RgSpacedC == <<"N", "E", "W", "M", "O", "D", "E", " ", "c", " ", "=", " ", "R", "A", "N", "G", "E", "(", " ", "-", "1", "0", " ", ":", " ", "7", " ", ")", ";">>
RgLowerD == <<"n", "e", "w", "m", "o", "d", "e", " ", "d", " ", "=", " ", "r", "a", "n", "g", "e", "(", "3", ":", "-", "3", ")", ";">>
RgZerosB == <<"N", "E", "W", "M", "O", "D", "E", " ", "b", " ", "=", " ", "R", "A", "N", "G", "E", "(", "0", "0", "7", ":", "1", "2", ")", ";">>

\* what each range line says: the name and the two bounds
RangeFacts ==
  {[line |-> RgCounter, name |-> <<"c", "o", "u", "n", "t", "e", "r">>, lo |-> 0, hi |-> 65535],
   [line |-> RgNegB, name |-> <<"b">>, lo |-> 0 - 5, hi |-> 0 - 1],
   [line |-> RgSpacedC, name |-> <<"c">>, lo |-> 0 - 10, hi |-> 7],
   [line |-> RgLowerD, name |-> <<"d">>, lo |-> 3, hi |-> 0 - 3],
   [line |-> RgZerosB, name |-> <<"b">>, lo |-> 7, hi |-> 12]}

MaxRangeLines == 3

PoolRange == {f.line : f \in RangeFacts} \cup {LnDclX, LnModuleM}

InitRange == InitParse(Documents(PoolRange, MaxRangeLines))

SpecRange == InitRange /\ [][NextParse]_vars

\* the range line of fact f stands on line n of text and no later line of text
\* defines the same name again
LastRangeLine(text, n, f) ==
  LET ls == SplitOn(text, NL)
  IN  /\ n \in 1..Len(ls)
      /\ ls[n] = f.line
      /\ \A k \in (n + 1)..Len(ls) : \A g \in RangeFacts : ls[k] = g.line => g.name # f.name

\* C15 for bounds that int() converts: when parse has returned, every line
\* NEWMODE/SYNMODE name = RANGE(lo:hi)
\* on line n (the last one to define name) has given a mode named name of
\* category RANGE with range_low = lo, range_high = hi and line_number = n,
\* for negative bounds as for positive ones.
C15_RangeModeRecorded ==
  pc = "done" =>
    \A f \in RangeFacts : \A n \in 1..MaxRangeLines + 1 :
      LastRangeLine(source, n, f) =>
        GetMode(model, f.name) =
          Some([name |-> f.name, base_mode |-> "RANGE", enum_values |-> <<>>,
                range_low |-> Some(f.lo), range_high |-> Some(f.hi),
                fields |-> <<>>, line_number |-> n])

\* a parse has returned a range mode with two negative bounds from the second
\* line or later, and one with a negative upper bound below the lower one
C15_Witness ==
  /\ pc = "done"
  /\ \E n \in 2..MaxRangeLines : LastRangeLine(source, n, [line |-> RgNegB, name |-> <<"b">>, lo |-> 0 - 5, hi |-> 0 - 1])
  /\ \E md \in GetMode(model, <<"b">>) : md.range_low = {0 - 5} /\ md.range_high = {0 - 1}
  /\ \E md \in GetMode(model, <<"d">>) : md.range_high = {0 - 3}

-----------------------------------------------------------------------------
\* The server: documents and models under the notifications of the main loop

MaxServerLines == 1

PoolServer == {LnDclX, LnDclBlank}

ServerTexts == Documents(PoolServer, MaxServerLines)

Uris == {UriA, UriB}

\* dict[key] = value
Put(d, k, v) == [x \in DOMAIN d \cup {k} |-> IF x = k THEN v ELSE d[x]]

\* del dict[key] when the key is there
Del(d, k) == [x \in DOMAIN d \ {k} |-> d[x]]

\* what main writes when handle_request raises the exception e: e is str(e)
InternalError(e) ==
  [jsonrpc |-> "2.0",
   error |-> [code |-> 0 - 32603, message |-> "Internal error: " \o e]]

\* _parse_document that keeps one model for all the documents
ParseDocumentSharedModel(docs, mods, uri) ==
  IF uri \notin DOMAIN docs THEN [raised |-> FALSE, models |-> mods]
  ELSE CHOOSE out \in {IF r.raised THEN [raised |-> TRUE, models |-> mods, error |-> r.error]
                       ELSE [raised |-> FALSE,
                             models |-> [u \in DOMAIN mods \cup {uri} |-> r.model]] :
                       r \in {Parse(docs[uri])}} : TRUE

\* _parse_document: the models after it, or the exception of parse
ParseDocument(docs, mods, uri) ==
  IF uri \notin DOMAIN docs THEN [raised |-> FALSE, models |-> mods]
  ELSE CHOOSE out \in {IF r.raised THEN [raised |-> TRUE, models |-> mods, error |-> r.error]
                       ELSE [raised |-> FALSE, models |-> Put(mods, uri, r.model)] :
                       r \in {Parse(docs[uri])}} : TRUE

\* the content changes of a didChange: none, one, or two of which the last
\* counts; a change without a text key counts as the empty text
NoText == {}

Changes == {Some(t) : t \in ServerTexts} \cup {NoText}

ChangeLists == {<<>>} \cup {<<c>> : c \in Changes} \cup {<<Some(LnDclX), c>> : c \in Changes}

ChangeText(c) == IF c = NoText THEN <<>> ELSE CHOOSE t \in c : TRUE

InitServer ==
  /\ pc = "serve"
  /\ documents = NoDocuments
  /\ models = NoModels
  /\ request = NoRequest
  /\ response = NoResponse
  /\ source = <<>>
  /\ clean = <<>>
  /\ lines = <<>>
  /\ idx = 0
  /\ model = EmptyModel

\* textDocument/didOpen: store the text, then parse it
DidOpen ==
  \E u \in Uris, t \in ServerTexts :
    \E docs \in {Put(documents, u, t)} :
      \E r \in {ParseDocument(docs, models, u)} :
        /\ pc = "serve"
        /\ request' = [method |-> "textDocument/didOpen", uri |-> u, text |-> t]
        /\ documents' = docs
        /\ models' = r.models
        /\ response' = IF r.raised THEN InternalError(r.error) ELSE NoResponse
        /\ UNCHANGED <<pc, source, clean, lines, idx, model>>

\* textDocument/didChange: with a change in the list, store the text of the
\* last one, then parse it
DidChange ==
  \E u \in Uris, changes \in ChangeLists :
    \E docs \in {IF changes # <<>>
                 THEN Put(documents, u, ChangeText(changes[Len(changes)]))
                 ELSE documents} :
      \E r \in {IF changes # <<>> THEN ParseDocument(docs, models, u)
                ELSE [raised |-> FALSE, models |-> models]} :
        /\ pc = "serve"
        /\ request' = [method |-> "textDocument/didChange", uri |-> u,
                       contentChanges |-> changes]
        /\ documents' = docs
        /\ models' = r.models
        /\ response' = IF r.raised THEN InternalError(r.error) ELSE NoResponse
        /\ UNCHANGED <<pc, source, clean, lines, idx, model>>

\* textDocument/didClose: forget the text and the model
DidClose ==
  \E u \in Uris :
    /\ pc = "serve"
    /\ request' = [method |-> "textDocument/didClose", uri |-> u]
    /\ documents' = Del(documents, u)
    /\ models' = Del(models, u)
    /\ response' = NoResponse
    /\ UNCHANGED <<pc, source, clean, lines, idx, model>>

NextServer == DidOpen \/ DidChange \/ DidClose

SpecServer == InitServer /\ [][NextServer]_vars

\* C16: after any notifications, the model stored for a URI is the model that
\* parsing the text now stored for this URI gives, never one of an older text.
C16_ModelIsParseOfText ==
  \A u \in DOMAIN documents \cap DOMAIN models :
    models[u] = Parse(documents[u]).model

-----------------------------------------------------------------------------
\* The requests of the server

\* KEYWORD_DOCS: the documentation texts of the server, in the order of the table
KEYWORD_DOCS ==
  << [key |-> <<"M", "O", "D", "U", "L", "E">>, val |-> <<"D", "e", "f", "i", "n", "e", "s", " ", "a", " ", "m", "o", "d", "u", "l", "e", " ", "-", " ", "t", "h", "e", " ", "b", "a", "s", "i", "c", " ", "u", "n", "i", "t", " ", "o", "f", " ", "C", "H", "I", "L", "L", " ", "p", "r", "o", "g", "r", "a", "m", " ", "s", "t", "r", "u", "c", "t", "u", "r", "e">>],
     [key |-> <<"D", "C", "L">>, val |-> <<"D", "e", "c", "l", "a", "r", "e", "s", " ", "a", " ", "v", "a", "r", "i", "a", "b", "l", "e", " ", "w", "i", "t", "h", " ", "a", " ", "s", "p", "e", "c", "i", "f", "i", "e", "d", " ", "m", "o", "d", "e", " ", "(", "t", "y", "p", "e", ")">>],
     [key |-> <<"N", "E", "W", "M", "O", "D", "E">>, val |-> <<"D", "e", "f", "i", "n", "e", "s", " ", "a", " ", "n", "e", "w", " ", "m", "o", "d", "e", " ", "(", "t", "y", "p", "e", ")", " ", "d", "e", "r", "i", "v", "e", "d", " ", "f", "r", "o", "m", " ", "e", "x", "i", "s", "t", "i", "n", "g", " ", "m", "o", "d", "e", "s">>],
     [key |-> <<"S", "Y", "N", "M", "O", "D", "E">>, val |-> <<"D", "e", "f", "i", "n", "e", "s", " ", "a", " ", "s", "y", "n", "o", "n", "y", "m", " ", "m", "o", "d", "e", " ", "(", "t", "y", "p", "e", " ", "a", "l", "i", "a", "s", ")">>],
     [key |-> <<"S", "Y", "N">>, val |-> <<"D", "e", "f", "i", "n", "e", "s", " ", "a", " ", "s", "y", "n", "o", "n", "y", "m", " ", "(", "n", "a", "m", "e", "d", " ", "c", "o", "n", "s", "t", "a", "n", "t", ")">>],
     [key |-> <<"P", "R", "O", "C">>, val |-> <<"D", "e", "f", "i", "n", "e", "s", " ", "a", " ", "p", "r", "o", "c", "e", "d", "u", "r", "e">>],
     [key |-> <<"P", "R", "O", "C", "E", "S", "S">>, val |-> <<"D", "e", "f", "i", "n", "e", "s", " ", "a", " ", "c", "o", "n", "c", "u", "r", "r", "e", "n", "t", " ", "p", "r", "o", "c", "e", "s", "s">>],
     [key |-> <<"S", "I", "G", "N", "A", "L">>, val |-> <<"D", "e", "f", "i", "n", "e", "s", " ", "a", " ", "s", "i", "g", "n", "a", "l", " ", "f", "o", "r", " ", "i", "n", "t", "e", "r", "-", "p", "r", "o", "c", "e", "s", "s", " ", "c", "o", "m", "m", "u", "n", "i", "c", "a", "t", "i", "o", "n">>],
     [key |-> <<"B", "U", "F", "F", "E", "R">>, val |-> <<"D", "e", "c", "l", "a", "r", "e", "s", " ", "a", " ", "b", "u", "f", "f", "e", "r", " ", "f", "o", "r", " ", "i", "n", "t", "e", "r", "-", "p", "r", "o", "c", "e", "s", "s", " ", "m", "e", "s", "s", "a", "g", "e", " ", "p", "a", "s", "s", "i", "n", "g">>],
     [key |-> <<"E", "V", "E", "N", "T">>, val |-> <<"D", "e", "c", "l", "a", "r", "e", "s", " ", "a", "n", " ", "e", "v", "e", "n", "t", " ", "f", "o", "r", " ", "p", "r", "o", "c", "e", "s", "s", " ", "s", "y", "n", "c", "h", "r", "o", "n", "i", "z", "a", "t", "i", "o", "n">>],
     [key |-> <<"R", "E", "G", "I", "O", "N">>, val |-> <<"D", "e", "f", "i", "n", "e", "s", " ", "a", " ", "p", "r", "o", "t", "e", "c", "t", "e", "d", " ", "r", "e", "g", "i", "o", "n", " ", "f", "o", "r", " ", "m", "u", "t", "u", "a", "l", " ", "e", "x", "c", "l", "u", "s", "i", "o", "n">>],
     [key |-> <<"I", "F">>, val |-> <<"C", "o", "n", "d", "i", "t", "i", "o", "n", "a", "l", " ", "s", "t", "a", "t", "e", "m", "e", "n", "t">>],
     [key |-> <<"T", "H", "E", "N">>, val |-> <<"I", "n", "t", "r", "o", "d", "u", "c", "e", "s", " ", "t", "h", "e", " ", "c", "o", "n", "s", "e", "q", "u", "e", "n", "t", " ", "o", "f", " ", "I", "F">>],
     [key |-> <<"E", "L", "S", "E">>, val |-> <<"I", "n", "t", "r", "o", "d", "u", "c", "e", "s", " ", "t", "h", "e", " ", "a", "l", "t", "e", "r", "n", "a", "t", "i", "v", "e", " ", "o", "f", " ", "I", "F">>],
     [key |-> <<"E", "L", "S", "I", "F">>, val |-> <<"I", "n", "t", "r", "o", "d", "u", "c", "e", "s", " ", "a", "n", " ", "a", "l", "t", "e", "r", "n", "a", "t", "i", "v", "e", " ", "c", "o", "n", "d", "i", "t", "i", "o", "n">>],
     [key |-> <<"F", "I">>, val |-> <<"T", "e", "r", "m", "i", "n", "a", "t", "e", "s", " ", "I", "F", " ", "s", "t", "a", "t", "e", "m", "e", "n", "t">>],
     [key |-> <<"C", "A", "S", "E">>, val |-> <<"C", "a", "s", "e", " ", "s", "e", "l", "e", "c", "t", "i", "o", "n", " ", "s", "t", "a", "t", "e", "m", "e", "n", "t">>],
     [key |-> <<"E", "S", "A", "C">>, val |-> <<"T", "e", "r", "m", "i", "n", "a", "t", "e", "s", " ", "C", "A", "S", "E", " ", "s", "t", "a", "t", "e", "m", "e", "n", "t">>],
     [key |-> <<"D", "O">>, val |-> <<"B", "e", "g", "i", "n", "s", " ", "a", " ", "l", "o", "o", "p", " ", "c", "o", "n", "s", "t", "r", "u", "c", "t">>],
     [key |-> <<"O", "D">>, val |-> <<"T", "e", "r", "m", "i", "n", "a", "t", "e", "s", " ", "a", " ", "D", "O", " ", "l", "o", "o", "p">>],
     [key |-> <<"W", "H", "I", "L", "E">>, val |-> <<"L", "o", "o", "p", " ", "w", "h", "i", "l", "e", " ", "c", "o", "n", "d", "i", "t", "i", "o", "n", " ", "i", "s", " ", "t", "r", "u", "e">>],
     [key |-> <<"F", "O", "R">>, val |-> <<"C", "o", "u", "n", "t", "e", "d", " ", "l", "o", "o", "p">>],
     [key |-> <<"E", "X", "I", "T">>, val |-> <<"E", "x", "i", "t", " ", "f", "r", "o", "m", " ", "a", " ", "l", "o", "o", "p">>],
     [key |-> <<"R", "E", "T", "U", "R", "N">>, val |-> <<"R", "e", "t", "u", "r", "n", " ", "f", "r", "o", "m", " ", "p", "r", "o", "c", "e", "d", "u", "r", "e", " ", "w", "i", "t", "h", " ", "o", "p", "t", "i", "o", "n", "a", "l", " ", "v", "a", "l", "u", "e">>],
     [key |-> <<"G", "O", "T", "O">>, val |-> <<"U", "n", "c", "o", "n", "d", "i", "t", "i", "o", "n", "a", "l", " ", "j", "u", "m", "p", " ", "(", "d", "i", "s", "c", "o", "u", "r", "a", "g", "e", "d", ")">>],
     [key |-> <<"S", "E", "N", "D">>, val |-> <<"S", "e", "n", "d", " ", "a", " ", "s", "i", "g", "n", "a", "l", " ", "t", "o", " ", "a", " ", "p", "r", "o", "c", "e", "s", "s">>],
     [key |-> <<"R", "E", "C", "E", "I", "V", "E">>, val |-> <<"R", "e", "c", "e", "i", "v", "e", " ", "a", " ", "s", "i", "g", "n", "a", "l", " ", "f", "r", "o", "m", " ", "a", " ", "p", "r", "o", "c", "e", "s", "s">>],
     [key |-> <<"D", "E", "L", "A", "Y">>, val |-> <<"D", "e", "l", "a", "y", " ", "p", "r", "o", "c", "e", "s", "s", " ", "e", "x", "e", "c", "u", "t", "i", "o", "n", " ", "f", "o", "r", " ", "a", " ", "d", "u", "r", "a", "t", "i", "o", "n">>],
     [key |-> <<"S", "T", "A", "R", "T">>, val |-> <<"S", "t", "a", "r", "t", " ", "a", " ", "n", "e", "w", " ", "p", "r", "o", "c", "e", "s", "s", " ", "i", "n", "s", "t", "a", "n", "c", "e">>],
     [key |-> <<"S", "T", "O", "P">>, val |-> <<"S", "t", "o", "p", " ", "t", "h", "e", " ", "c", "u", "r", "r", "e", "n", "t", " ", "p", "r", "o", "c", "e", "s", "s">>],
     [key |-> <<"B", "E", "G", "I", "N">>, val |-> <<"B", "e", "g", "i", "n", " ", "a", " ", "b", "l", "o", "c", "k">>],
     [key |-> <<"E", "N", "D">>, val |-> <<"E", "n", "d", " ", "a", " ", "b", "l", "o", "c", "k", " ", "o", "r", " ", "c", "o", "n", "s", "t", "r", "u", "c", "t">>],
     [key |-> <<"G", "R", "A", "N", "T">>, val |-> <<"M", "a", "k", "e", " ", "n", "a", "m", "e", "s", " ", "v", "i", "s", "i", "b", "l", "e", " ", "o", "u", "t", "s", "i", "d", "e", " ", "m", "o", "d", "u", "l", "e">>],
     [key |-> <<"S", "E", "I", "Z", "E">>, val |-> <<"A", "c", "c", "e", "s", "s", " ", "n", "a", "m", "e", "s", " ", "f", "r", "o", "m", " ", "a", "n", "o", "t", "h", "e", "r", " ", "m", "o", "d", "u", "l", "e">>],
     [key |-> <<"I", "N", "T">>, val |-> <<"I", "n", "t", "e", "g", "e", "r", " ", "m", "o", "d", "e">>],
     [key |-> <<"B", "O", "O", "L">>, val |-> <<"B", "o", "o", "l", "e", "a", "n", " ", "m", "o", "d", "e", " ", "(", "T", "R", "U", "E", "/", "F", "A", "L", "S", "E", ")">>],
     [key |-> <<"C", "H", "A", "R">>, val |-> <<"C", "h", "a", "r", "a", "c", "t", "e", "r", " ", "m", "o", "d", "e">>],
     [key |-> <<"C", "H", "A", "R", "S">>, val |-> <<"C", "h", "a", "r", "a", "c", "t", "e", "r", " ", "s", "t", "r", "i", "n", "g", " ", "m", "o", "d", "e">>],
     [key |-> <<"B", "O", "O", "L", "S">>, val |-> <<"B", "i", "t", " ", "s", "t", "r", "i", "n", "g", " ", "m", "o", "d", "e">>],
     [key |-> <<"S", "E", "T">>, val |-> <<"E", "n", "u", "m", "e", "r", "a", "t", "i", "o", "n", " ", "m", "o", "d", "e">>],
     [key |-> <<"R", "A", "N", "G", "E">>, val |-> <<"I", "n", "t", "e", "g", "e", "r", " ", "s", "u", "b", "r", "a", "n", "g", "e", " ", "m", "o", "d", "e">>],
     [key |-> <<"P", "O", "W", "E", "R", "S", "E", "T">>, val |-> <<"S", "e", "t", " ", "o", "f", " ", "d", "i", "s", "c", "r", "e", "t", "e", " ", "v", "a", "l", "u", "e", "s", " ", "m", "o", "d", "e">>],
     [key |-> <<"R", "E", "F">>, val |-> <<"R", "e", "f", "e", "r", "e", "n", "c", "e", " ", "(", "p", "o", "i", "n", "t", "e", "r", ")", " ", "m", "o", "d", "e">>],
     [key |-> <<"S", "T", "R", "U", "C", "T">>, val |-> <<"S", "t", "r", "u", "c", "t", "u", "r", "e", " ", "m", "o", "d", "e", " ", "(", "r", "e", "c", "o", "r", "d", ")">>],
     [key |-> <<"A", "R", "R", "A", "Y">>, val |-> <<"A", "r", "r", "a", "y", " ", "m", "o", "d", "e">>],
     [key |-> <<"S", "T", "A", "T", "I", "C">>, val |-> <<"S", "t", "a", "t", "i", "c", " ", "s", "t", "o", "r", "a", "g", "e", " ", "d", "u", "r", "a", "t", "i", "o", "n">>],
     [key |-> <<"I", "N", "I", "T">>, val |-> <<"I", "n", "i", "t", "i", "a", "l", "i", "z", "e", " ", "w", "i", "t", "h", " ", "v", "a", "l", "u", "e">>],
     [key |-> <<"L", "O", "C">>, val |-> <<"L", "o", "c", "a", "l", " ", "(", "s", "t", "a", "c", "k", ")", " ", "s", "t", "o", "r", "a", "g", "e">>],
     [key |-> <<"R", "E", "A", "D">>, val |-> <<"R", "e", "a", "d", "-", "o", "n", "l", "y", " ", "a", "t", "t", "r", "i", "b", "u", "t", "e">>],
     [key |-> <<"A", "N", "D">>, val |-> <<"L", "o", "g", "i", "c", "a", "l", " ", "A", "N", "D", " ", "o", "p", "e", "r", "a", "t", "o", "r">>],
     [key |-> <<"O", "R">>, val |-> <<"L", "o", "g", "i", "c", "a", "l", " ", "O", "R", " ", "o", "p", "e", "r", "a", "t", "o", "r">>],
     [key |-> <<"N", "O", "T">>, val |-> <<"L", "o", "g", "i", "c", "a", "l", " ", "N", "O", "T", " ", "o", "p", "e", "r", "a", "t", "o", "r">>],
     [key |-> <<"X", "O", "R">>, val |-> <<"L", "o", "g", "i", "c", "a", "l", " ", "e", "x", "c", "l", "u", "s", "i", "v", "e", " ", "O", "R", " ", "o", "p", "e", "r", "a", "t", "o", "r">>],
     [key |-> <<"A", "N", "D", "I", "F">>, val |-> <<"S", "h", "o", "r", "t", "-", "c", "i", "r", "c", "u", "i", "t", " ", "A", "N", "D", " ", "(", "e", "v", "a", "l", "u", "a", "t", "e", "s", " ", "r", "i", "g", "h", "t", " ", "o", "n", "l", "y", " ", "i", "f", " ", "l", "e", "f", "t", " ", "i", "s", " ", "T", "R", "U", "E", ")">>],
     [key |-> <<"O", "R", "I", "F">>, val |-> <<"S", "h", "o", "r", "t", "-", "c", "i", "r", "c", "u", "i", "t", " ", "O", "R", " ", "(", "e", "v", "a", "l", "u", "a", "t", "e", "s", " ", "r", "i", "g", "h", "t", " ", "o", "n", "l", "y", " ", "i", "f", " ", "l", "e", "f", "t", " ", "i", "s", " ", "F", "A", "L", "S", "E", ")">>],
     [key |-> <<"M", "O", "D">>, val |-> <<"M", "o", "d", "u", "l", "o", " ", "o", "p", "e", "r", "a", "t", "o", "r">>],
     [key |-> <<"R", "E", "M">>, val |-> <<"R", "e", "m", "a", "i", "n", "d", "e", "r", " ", "o", "p", "e", "r", "a", "t", "o", "r">>],
     [key |-> <<"T", "R", "U", "E">>, val |-> <<"B", "o", "o", "l", "e", "a", "n", " ", "t", "r", "u", "e", " ", "v", "a", "l", "u", "e">>],
     [key |-> <<"F", "A", "L", "S", "E">>, val |-> <<"B", "o", "o", "l", "e", "a", "n", " ", "f", "a", "l", "s", "e", " ", "v", "a", "l", "u", "e">>],
     [key |-> <<"N", "U", "L", "L">>, val |-> <<"N", "u", "l", "l", " ", "r", "e", "f", "e", "r", "e", "n", "c", "e", " ", "v", "a", "l", "u", "e">>] >>

\* the text of the kind string f"DCL {dcl.mode.value}"
DclKindText(kind_str) ==
  <<"D", "C", "L", " ">> \o ModeValues[CHOOSE i \in 1..Len(ModeValues) :
                            kind_str = "DCL " \o ModeValue(ModeValues[i][1])][2]

\* ', '.join(f"{p[0]} {p[1]}" for p in parameters)
ParamsStr(parameters) ==
  Join([k \in 1..Len(parameters) |-> parameters[k][1] \o <<" ">> \o parameters[k][2]],
       <<",", " ">>)

\* one item of the completion list: label, kind, detail and insertText (the
\* sortText, the position in a list whose order follows the iteration of a
\* set of words, is left out)
CompletionItem(m, name, kind_str) ==
  LET item(kind, detail) ==
        [label |-> name, kind |-> kind, detail |-> detail, insertText |-> name]
  IN  CASE kind_str = "keyword" -> item(14, <<"C", "H", "I", "L", "L", " ", "k", "e", "y", "w", "o", "r", "d">>)
        [] kind_str = "builtin" -> item(3, <<"B", "u", "i", "l", "t", "-", "i", "n", " ", "f", "u", "n", "c", "t", "i", "o", "n">>)
        [] kind_str = "mode" -> item(7, <<"N", "E", "W", "M", "O", "D", "E">>)
        [] kind_str = "procedure" ->
             item(3, IF DictHas(m.procs, name)
                     THEN <<"P", "R", "O", "C", "(">> \o ParamsStr(DictGet(m.procs, name).parameters) \o <<")">>
                     ELSE <<"P", "R", "O", "C">>)
        [] kind_str = "constant" ->
             item(21, IF DictHas(m.synonyms, name)
                      THEN <<"S", "Y", "N", " ", "=", " ">> \o DictGet(m.synonyms, name).value
                      ELSE <<"S", "Y", "N">>)
        [] OTHER -> item(6, DclKindText(kind_str))

\* self.models.get(uri, ChillSemanticModel())
ModelOf(mods, uri) == IF uri \in DOMAIN mods THEN mods[uri] ELSE EmptyModel

NoItems == [isIncomplete |-> FALSE, items |-> {}]

\* _handle_completion: the response
HandleCompletion(docs, mods, request_id, uri, line, char) ==
  [jsonrpc |-> "2.0", id |-> request_id,
   result |->
     IF uri \notin DOMAIN docs THEN NoItems
     ELSE IF line >= Len(SplitOn(docs[uri], NL)) THEN NoItems
     ELSE [isIncomplete |-> FALSE,
           items |-> {CompletionItem(ModelOf(mods, uri), c[1], c[2]) :
                        c \in GetCompletions(ModelOf(mods, uri),
                                             SplitOn(docs[uri], NL)[line + 1], char)}]]

\* the result null of a response
Null == [null |-> TRUE]

\* _handle_hover: the response
HandleHover(docs, mods, request_id, uri, line, char) ==
  [jsonrpc |-> "2.0", id |-> request_id,
   result |->
     IF uri \notin DOMAIN docs THEN Null
     ELSE LET word == GetWordAtPosition(docs[uri], line, char)
              hover_info == GetHoverInfo(ModelOf(mods, uri), word)
              markdown(content) == [contents |-> [kind |-> "markdown", value |-> content]]
          IN  IF word = <<>> THEN Null
              ELSE IF Truthy(hover_info) THEN markdown(TheValue(hover_info))
              ELSE IF DictHas(KEYWORD_DOCS, Upper(word))
              THEN markdown(HoverHead(word, DictGet(KEYWORD_DOCS, Upper(word))))
              ELSE Null]

\* the 1-based line of the definition of word: declaration, mode, procedure,
\* process, synonym, in this order
DefinitionLine(m, word) ==
  IF GetDcl(m, word) # None THEN Some(TheValue(GetDcl(m, word)).line_number)
  ELSE IF GetMode(m, word) # None THEN Some(TheValue(GetMode(m, word)).line_number)
  ELSE IF GetProc(m, word) # None THEN Some(TheValue(GetProc(m, word)).line_start)
  ELSE IF DictHas(m.processes, word) THEN Some(DictGet(m.processes, word).line_start)
  ELSE IF DictHas(m.synonyms, word) THEN Some(DictGet(m.synonyms, word).line_number)
  ELSE None

\* _handle_definition: the response
HandleDefinition(docs, mods, request_id, uri, line, char) ==
  [jsonrpc |-> "2.0", id |-> request_id,
   result |->
     IF uri \notin DOMAIN docs THEN Null
     ELSE LET word == GetWordAtPosition(docs[uri], line, char)
              found == DefinitionLine(ModelOf(mods, uri), word)
          IN  IF word = <<>> THEN Null
              ELSE IF found = None \/ TheValue(found) - 1 < 0 THEN Null
              ELSE Location(uri, TheValue(found) - 1, 0, 100)]

\* one record of the document symbol list
SymbolRecord(name, kind, uri, line0, char0, line1, char1, detail) ==
  [name |-> name, kind |-> kind,
   location |-> [uri |-> uri,
                 range |-> [start |-> [line |-> line0, character |-> char0],
                            end |-> [line |-> line1, character |-> char1]]],
   detail |-> detail]

\* the 0-based last line of a block: line_end - 1 if line_end else line_start - 1
BlockEnd(e) == IF e.line_end # 0 THEN e.line_end - 1 ELSE e.line_start - 1

\* the keys of the declarations that carry no '.', in the order of the dict
RECURSIVE BareDclEntries(_)
BareDclEntries(d) ==
  IF d = <<>> THEN <<>>
  ELSE (IF Contains(Head(d).key, <<".">>) THEN <<>> ELSE <<Head(d)>>)
       \o BareDclEntries(Tail(d))

\* the symbols of _handle_document_symbol for a model
DocumentSymbols(m, uri) ==
  LET bare == BareDclEntries(m.dcls)
  IN  [k \in 1..Len(m.modules) |->
         SymbolRecord(m.modules[k].key, 2, uri, m.modules[k].val.line_start - 1, 0,
                      BlockEnd(m.modules[k].val), 100, <<"M", "O", "D", "U", "L", "E">>)]
      \o [k \in 1..Len(m.modes) |->
         SymbolRecord(m.modes[k].key, 5, uri, m.modes[k].val.line_number - 1, 0,
                      m.modes[k].val.line_number - 1, 100,
                      <<"N", "E", "W", "M", "O", "D", "E", " ">> \o ModeValueText(m.modes[k].val.base_mode))]
      \o [k \in 1..Len(bare) |->
         SymbolRecord(bare[k].key, 13, uri, bare[k].val.line_number - 1,
                      bare[k].val.column_start, bare[k].val.line_number - 1,
                      bare[k].val.column_end,
                      <<"D", "C", "L", " ">> \o ModeValueText(bare[k].val.mode))]
      \o [k \in 1..Len(m.synonyms) |->
         SymbolRecord(m.synonyms[k].key, 14, uri, m.synonyms[k].val.line_number - 1, 0,
                      m.synonyms[k].val.line_number - 1, 100,
                      <<"S", "Y", "N", " ", "=", " ">> \o m.synonyms[k].val.value)]
      \o [k \in 1..Len(m.procs) |->
         SymbolRecord(m.procs[k].key, 12, uri, m.procs[k].val.line_start - 1, 0,
                      BlockEnd(m.procs[k].val), 100,
                      <<"P", "R", "O", "C", "(">> \o ParamsStr(m.procs[k].val.parameters) \o <<")">>)]
      \o [k \in 1..Len(m.processes) |->
         SymbolRecord(m.processes[k].key, 12, uri, m.processes[k].val.line_start - 1, 0,
                      BlockEnd(m.processes[k].val), 100, <<"P", "R", "O", "C", "E", "S", "S">>)]
      \o [k \in 1..Len(m.signals) |->
         SymbolRecord(m.signals[k].key, 24, uri, m.signals[k].val.line_number - 1, 0,
                      m.signals[k].val.line_number - 1, 100, <<"S", "I", "G", "N", "A", "L">>)]

\* _handle_document_symbol: the response
HandleDocumentSymbol(mods, request_id, uri) ==
  [jsonrpc |-> "2.0", id |-> request_id,
   result |-> IF uri \notin DOMAIN mods THEN <<>> ELSE DocumentSymbols(mods[uri], uri)]

-----------------------------------------------------------------------------
\* Queries on a server that has opened at most one document

QyZz == <<"z", "z">>

MaxQueryLines == 1

PoolQueries == {LnDclX, LnDclBlank, QyZz}

QueryTexts == Documents(PoolQueries, MaxQueryLines)

QueryChars == {0, 4}

\* the words looked up directly in the models
QueryWords == {<<"x">>, <<"X">>, <<"z", "z">>, <<"y">>, <<"D", "C", "L">>, <<"a", "b", "s">>}

InitQueries ==
  /\ pc = "serve"
  /\ documents \in {NoDocuments} \cup {[u \in {UriA} |-> t] : t \in QueryTexts}
  /\ models = ParseDocument(documents, NoModels, UriA).models
  /\ request = NoRequest
  /\ response = NoResponse
  /\ source = <<>>
  /\ clean = <<>>
  /\ lines = <<>>
  /\ idx = 0
  /\ model = EmptyModel

Query(op, u, l, c) == [op |-> op, id |-> 1, uri |-> u, line |-> l, character |-> c]

\* textDocument/completion
Completion ==
  \E u \in Uris, l \in 0..MaxQueryLines, c \in QueryChars :
    /\ pc = "serve"
    /\ request' = Query("completion", u, l, c)
    /\ response' = HandleCompletion(documents, models, 1, u, l, c)
    /\ UNCHANGED <<pc, source, clean, lines, idx, model, documents, models>>

\* textDocument/hover
Hover ==
  \E u \in Uris, l \in 0..MaxQueryLines, c \in QueryChars :
    /\ pc = "serve"
    /\ request' = Query("hover", u, l, c)
    /\ response' = HandleHover(documents, models, 1, u, l, c)
    /\ UNCHANGED <<pc, source, clean, lines, idx, model, documents, models>>

\* textDocument/definition
Definition ==
  \E u \in Uris, l \in 0..MaxQueryLines, c \in QueryChars :
    /\ pc = "serve"
    /\ request' = Query("definition", u, l, c)
    /\ response' = HandleDefinition(documents, models, 1, u, l, c)
    /\ UNCHANGED <<pc, source, clean, lines, idx, model, documents, models>>

\* textDocument/references
References ==
  \E u \in Uris, l \in 0..MaxQueryLines, c \in QueryChars :
    /\ pc = "serve"
    /\ request' = Query("references", u, l, c)
    /\ response' = HandleReferences(documents, 1, u, l, c)
    /\ UNCHANGED <<pc, source, clean, lines, idx, model, documents, models>>

\* textDocument/documentSymbol
DocumentSymbol ==
  \E u \in Uris :
    /\ pc = "serve"
    /\ request' = Query("documentSymbol", u, 0, 0)
    /\ response' = HandleDocumentSymbol(models, 1, u)
    /\ UNCHANGED <<pc, source, clean, lines, idx, model, documents, models>>

NextQueries == Completion \/ Hover \/ Definition \/ References \/ DocumentSymbol

SpecQueries == InitQueries /\ [][NextQueries]_vars

\* word is no reserved word, no predefined name and no key of the model
Undefined(m, word) ==
  /\ Upper(word) \notin CHILL_RESERVED_WORDS \cup CHILL_PREDEFINED
  /\ ~DictHas(m.dcls, word) /\ ~DictHas(m.modes, word)
  /\ ~DictHas(m.procs, word) /\ ~DictHas(m.synonyms, word)

\* the empty or null result of each kind of request
NoResult(op) ==
  CASE op = "completion" -> NoItems
    [] op = "hover" -> Null
    [] op = "definition" -> Null
    [] op = "references" -> <<>>
    [] op = "documentSymbol" -> <<>>

\* C17: a miss gives an explicit no-result value.  In every model of the
\* server get_hover_info answers None for a word that is no keyword, no
\* predefined name and no key of the model, and so do get_dcl, get_mode and
\* get_proc; a request for a URI that is not open is answered with the empty
\* or null result of its kind, and documents and models stay as they are.
C17_MissGivesNoResult ==
  /\ [](\A u \in Uris : \A w \in QueryWords :
          Undefined(ModelOf(models, u), w) =>
            /\ GetHoverInfo(ModelOf(models, u), w) = None
            /\ GetDcl(ModelOf(models, u), w) = None
            /\ GetMode(ModelOf(models, u), w) = None
            /\ GetProc(ModelOf(models, u), w) = None)
  /\ [](request # NoRequest /\ request.uri \notin DOMAIN documents =>
          /\ response.id = request.id
          /\ response.result = NoResult(request.op))
  /\ [][documents' = documents /\ models' = models]_vars

\* a hover request for a URI that is not open has been answered while another
\* document is open with a model in which zz is undefined
C17_Witness ==
  /\ request # NoRequest
  /\ request.op = "hover"
  /\ request.uri = UriB
  /\ response.result = Null
  /\ UriA \in DOMAIN models
  /\ Undefined(models[UriA], QyZz)
  /\ ~Undefined(models[UriA], <<"x">>)

-----------------------------------------------------------------------------
\* The document symbols of an opened document

SyModuleB == <<"M", "O", "D", "U", "L", "E", " ", "b", ";">>

MaxSymbolLines == 4

PoolSymbols == {LnModuleM, SyModuleB, LnDclX, LnDclXBool, LnProcP, LnModeT}

InitSymbols ==
  /\ pc = "serve"
  /\ documents \in {[u \in {UriA} |-> t] : t \in Documents(PoolSymbols, MaxSymbolLines)}
  /\ models = ParseDocument(documents, NoModels, UriA).models
  /\ request = NoRequest
  /\ response = NoResponse
  /\ source = <<>>
  /\ clean = <<>>
  /\ lines = <<>>
  /\ idx = 0
  /\ model = EmptyModel

NextSymbols == DocumentSymbol

SpecSymbols == InitSymbols /\ [][NextSymbols]_vars

\* C18: the answer to documentSymbol for an open document holds as many
\* records as the model holds entities, and every declaration of the model
\* has its record: kind 13, its name, its line.
C18_OneRecordPerEntity ==
  (request # NoRequest /\ request.op = "documentSymbol" /\ request.uri \in DOMAIN models) =>
    LET m == models[request.uri]
        recs == response.result
    IN  /\ Len(recs) = EntityCount(m)
        /\ \A d \in EntitiesOf(m.dcls) :
             \E k \in 1..Len(recs) :
               /\ recs[k].kind = 13
               /\ recs[k].name = d.name
               /\ recs[k].location.range.start.line = d.line_number - 1

-----------------------------------------------------------------------------
\* Procedure headers whose name begins with the letters of a keyword

PnSync == <<"s", "y", "n", "c", ":", " ", "P", "R", "O", "C", "(", ")", ";">>
PnDclInit == <<"d", "c", "l", "_", "i", "n", "i", "t", ":", " ", "P", "R", "O", "C", "(", ")", ";">>
PnModuleA == <<"m", "o", "d", "u", "l", "e", "_", "a", ":", " ", "P", "R", "O", "C", "(", ")", ";">>
PnNewmodeX == <<"n", "e", "w", "m", "o", "d", "e", "_", "x", ":", " ", "P", "R", "O", "C", "(", ")", ";">>
PnOk == <<"o", "k", ":", " ", "P", "R", "O", "C", "(", ")", ";">>

\* the name each header gives its procedure
ProcNameFacts ==
  {[line |-> PnSync, name |-> <<"s", "y", "n", "c">>],
   [line |-> PnDclInit, name |-> <<"d", "c", "l", "_", "i", "n", "i", "t">>],
   [line |-> PnModuleA, name |-> <<"m", "o", "d", "u", "l", "e", "_", "a">>],
   [line |-> PnNewmodeX, name |-> <<"n", "e", "w", "m", "o", "d", "e", "_", "x">>],
   [line |-> PnOk, name |-> <<"o", "k">>]}

MaxProcNameLines == 2

PoolProcNames == {f.line : f \in ProcNameFacts} \cup {LnDclX}

InitProcNames == InitParse(Documents(PoolProcNames, MaxProcNameLines))

SpecProcNames == InitProcNames /\ [][NextParse]_vars

\* C19: when parse has returned, every line `name: PROC();` of the text has
\* given a procedure called name, on its line, whatever letters name begins
\* with.
C19_ProcHeaderGivesProcedure ==
  pc = "done" =>
    \A f \in ProcNameFacts : \A n \in 1..LineCount(source) :
      SplitOn(source, NL)[n] = f.line =>
        /\ DictHas(model.procs, f.name)
        /\ DictGet(model.procs, f.name).line_start = n

-----------------------------------------------------------------------------
\* Declarations with qualifier keywords before the mode

QlStaticInt == <<"D", "C", "L", " ", "x", " ", "S", "T", "A", "T", "I", "C", " ", "I", "N", "T", ";">>
QlDynamicInt == <<"D", "C", "L", " ", "y", " ", "D", "Y", "N", "A", "M", "I", "C", " ", "I", "N", "T", ";">>
QlLocReadBool == <<"D", "C", "L", " ", "z", " ", "L", "O", "C", " ", "R", "E", "A", "D", " ", "B", "O", "O", "L", ";">>
QlStatics == <<"D", "C", "L", " ", "w", " ", "S", "T", "A", "T", "I", "C", "S", ";">>
QlInt == <<"D", "C", "L", " ", "v", " ", "I", "N", "T", ";">>

\* what each declaration says: the category of the first token after the
\* qualifiers, and the qualifiers written as separate tokens
QualifierFacts ==
  {[line |-> QlStaticInt, name |-> <<"x">>, mode |-> "INT", qualifiers |-> {"STATIC"}],
   [line |-> QlDynamicInt, name |-> <<"y">>, mode |-> "INT", qualifiers |-> {"DYNAMIC"}],
   [line |-> QlLocReadBool, name |-> <<"z">>, mode |-> "BOOL", qualifiers |-> {"LOC", "READ"}],
   [line |-> QlStatics, name |-> <<"w">>, mode |-> "USER_DEFINED", qualifiers |-> {}],
   [line |-> QlInt, name |-> <<"v">>, mode |-> "INT", qualifiers |-> {}]}

MaxQualifierLines == 2

PoolQualifiers == {f.line : f \in QualifierFacts}

InitQualifiers == InitParse(Documents(PoolQualifiers, MaxQualifierLines))

SpecQualifiers == InitQualifiers /\ [][NextParse]_vars

\* C20: when parse has returned, the declaration of every DCL line of the
\* text has the category of the first token after its qualifiers, and its
\* flags is_static, is_dynamic, is_loc, is_read say which of STATIC, DYNAMIC,
\* LOC, READ stand in the line as separate tokens.
C20_QualifiersAreFlags ==
  pc = "done" =>
    \A f \in QualifierFacts :
      (\E n \in 1..LineCount(source) : SplitOn(source, NL)[n] = f.line) =>
        \E dcl \in GetDcl(model, f.name) :
          /\ dcl.mode = f.mode
          /\ dcl.is_static = ("STATIC" \in f.qualifiers)
          /\ dcl.is_dynamic = ("DYNAMIC" \in f.qualifiers)
          /\ dcl.is_loc = ("LOC" \in f.qualifiers)
          /\ dcl.is_read = ("READ" \in f.qualifiers)

-----------------------------------------------------------------------------
\* Modes defined by a name or by a built-in keyword

BmSettings == <<"N", "E", "W", "M", "O", "D", "E", " ", "t", " ", "=", " ", "s", "e", "t", "t", "i", "n", "g", "s", ";">>
BmReference == <<"S", "Y", "N", "M", "O", "D", "E", " ", "u", " ", "=", " ", "r", "e", "f", "e", "r", "e", "n", "c", "e", "_", "t", ";">>
BmEventQueue == <<"N", "E", "W", "M", "O", "D", "E", " ", "v", " ", "=", " ", "e", "v", "e", "n", "t", "_", "q", "u", "e", "u", "e", ";">>
BmMytype == <<"N", "E", "W", "M", "O", "D", "E", " ", "w", " ", "=", " ", "m", "y", "t", "y", "p", "e", ";">>
BmSet == <<"N", "E", "W", "M", "O", "D", "E", " ", "s", " ", "=", " ", "S", "E", "T", "(", "a", ",", " ", "b", ")", ";">>
BmInt == <<"N", "E", "W", "M", "O", "D", "E", " ", "i", " ", "=", " ", "I", "N", "T", ";">>

\* what each line says: the category of its leading token
BaseModeFacts ==
  {[line |-> BmSettings, name |-> <<"t">>, base_mode |-> "USER_DEFINED"],
   [line |-> BmReference, name |-> <<"u">>, base_mode |-> "USER_DEFINED"],
   [line |-> BmEventQueue, name |-> <<"v">>, base_mode |-> "USER_DEFINED"],
   [line |-> BmMytype, name |-> <<"w">>, base_mode |-> "USER_DEFINED"],
   [line |-> BmSet, name |-> <<"s">>, base_mode |-> "SET"],
   [line |-> BmInt, name |-> <<"i">>, base_mode |-> "INT"]}

MaxBaseModeLines == 2

PoolBaseMode == {f.line : f \in BaseModeFacts}

InitBaseMode == InitParse(Documents(PoolBaseMode, MaxBaseModeLines))

SpecBaseMode == InitBaseMode /\ [][NextParse]_vars

\* C21: when parse has returned, the mode of every NEWMODE/SYNMODE line of
\* the text has the category of the leading token of its right-hand side:
\* user-defined for a name that is no built-in keyword, also when the name
\* begins with the letters of one.
C21_NameIsUserDefined ==
  pc = "done" =>
    \A f \in BaseModeFacts :
      (\E n \in 1..LineCount(source) : SplitOn(source, NL)[n] = f.line) =>
        \E md \in GetMode(model, f.name) : md.base_mode = f.base_mode

-----------------------------------------------------------------------------
\* Headers whose body is never closed

\* the headers of PoolBody that open a procedure or a process, with the name
\* of the entity
BlockFacts ==
  {[line |-> LnHandler, name |-> <<"h", "a", "n", "d", "l", "e", "r">>],
   [line |-> LnSub, name |-> <<"s", "u", "b">>],
   [line |-> LnProcessW, name |-> <<"w", "o", "r", "k", "e", "r">>]}

\* the entities of the model called name that have a body: the process if
\* there is one, the procedure if there is one
BlocksNamed(m, name) ==
  (IF DictHas(m.processes, name) THEN {DictGet(m.processes, name)} ELSE {})
  \cup (IF DictHas(m.procs, name) THEN {DictGet(m.procs, name)} ELSE {})

\* C22: a header after which no line brings the depth counter to 0 still
\* gives its entity, with line_end = line_start = the header line; the parse
\* does not fail, and a declaration on a following line is recorded.
C22_UnterminatedEndsAtHeader ==
  /\ pc # "raised"
  /\ pc = "done" =>
       \A h \in 1..Len(lines) : \A f \in BlockFacts :
         (lines[h] = f.line /\ LastHeader(lines, h) /\ ClosingLines(lines, h) = {})
         => /\ BlocksNamed(model, f.name) # {}
            /\ \A e \in BlocksNamed(model, f.name) : e.line_start = h /\ e.line_end = h
  /\ pc = "done" =>
       \A k \in 1..Len(lines) :
         (lines[k] = LnDclXBool /\ LastHeader(lines, k))
         => \E d \in GetDcl(model, <<"x">>) : d.line_number = k

\* a parse is done in which handler's header is followed by a BEGIN and a
\* declaration and by no END: the procedure ends on its header line and the
\* declaration is in the model
C22_Witness ==
  /\ pc = "done"
  /\ \E h \in 1..Len(lines) :
       /\ lines[h] = LnHandler /\ LastHeader(lines, h)
       /\ ClosingLines(lines, h) = {}
       /\ \E b \in (h + 1)..Len(lines) : lines[b] = LnBegin
       /\ \E k \in (h + 1)..Len(lines) : lines[k] = LnDclXBool
       /\ DictHas(model.procs, <<"h", "a", "n", "d", "l", "e", "r">>)
       /\ DictGet(model.procs, <<"h", "a", "n", "d", "l", "e", "r">>).line_end = h
       /\ GetDcl(model, <<"x">>) # None

-----------------------------------------------------------------------------
\* ChillSemanticModel under calls of add_dcl, push_scope, pop_scope, get_dcl

MaxModelCalls == 4

DclNames == {<<"x">>, <<"y">>}

ScopeNames == {<<"M">>, <<"N">>}

InitModelCalls ==
  /\ pc = "model"
  /\ model = EmptyModel
  /\ idx = 0
  /\ request = NoRequest
  /\ response = NoResponse
  /\ source = <<>>
  /\ clean = <<>>
  /\ lines = <<>>
  /\ documents = NoDocuments
  /\ models = NoModels

\* add_dcl of a new declaration; idx numbers the calls, and the declaration
\* carries the number of its call as its line
CallAddDcl ==
  \E n \in DclNames :
    /\ pc = "model"
    /\ idx < MaxModelCalls
    /\ model' = AddDcl(model, [DclDefault(n, "INT") EXCEPT !.line_number = idx + 1])
    /\ request' = [op |-> "add_dcl", name |-> n, scope |-> model.current_scope,
                   line_number |-> idx + 1]
    /\ idx' = idx + 1
    /\ UNCHANGED <<pc, source, clean, lines, documents, models, response>>

\* push_scope
CallPushScope ==
  \E s \in ScopeNames :
    /\ pc = "model"
    /\ idx < MaxModelCalls
    /\ model' = PushScope(model, s)
    /\ request' = [op |-> "push_scope", name |-> s]
    /\ idx' = idx + 1
    /\ UNCHANGED <<pc, source, clean, lines, documents, models, response>>

\* pop_scope
CallPopScope ==
  /\ pc = "model"
  /\ idx < MaxModelCalls
  /\ model' = PopScope(model)
  /\ request' = [op |-> "pop_scope"]
  /\ idx' = idx + 1
  /\ UNCHANGED <<pc, source, clean, lines, documents, models, response>>

\* get_dcl: the answer is kept in response
CallGetDcl ==
  \E n \in DclNames :
    /\ pc = "model"
    /\ idx < MaxModelCalls
    /\ request' = [op |-> "get_dcl", name |-> n]
    /\ response' = [result |-> GetDcl(model, n)]
    /\ idx' = idx + 1
    /\ UNCHANGED <<pc, source, clean, lines, documents, models, model>>

NextModelCalls == CallAddDcl \/ CallPushScope \/ CallPopScope \/ CallGetDcl

SpecModelCalls == InitModelCalls /\ [][NextModelCalls]_vars

\* C23: the declaration just added while the current scope was S is stored
\* under its bare name and under S.name, S being a module name or the global
\* sentinel, and both keys hold this declaration; get_dcl answers the entry
\* at the key qualified by the current scope when there is one and else the
\* entry at the bare name.
C23_StoredUnderBothKeys ==
  /\ request.op = "add_dcl" =>
       /\ DictHas(model.dcls, request.name)
       /\ DictHas(model.dcls, Qualified(request.scope, request.name))
       /\ DictGet(model.dcls, request.name).line_number = request.line_number
       /\ DictGet(model.dcls, Qualified(request.scope, request.name))
            = DictGet(model.dcls, request.name)
  /\ request.op = "get_dcl" =>
       response.result =
         DictGetOpt(model.dcls,
                    IF DictHas(model.dcls, Qualified(model.current_scope, request.name))
                    THEN Qualified(model.current_scope, request.name)
                    ELSE request.name)

-----------------------------------------------------------------------------
\* Independence of the documents of the server

\* the notification has built a model for its URI
ModelBuilt(req, resp) ==
  /\ resp = NoResponse
  /\ \/ req.method = "textDocument/didOpen"
     \/ req.method = "textDocument/didChange" /\ req.contentChanges # <<>>

\* C24: a notification for one URI leaves the text and the model of every
\* other URI as they were, and the model it builds is the model of its own
\* text, whatever was opened, changed or closed before.
C24_DocumentsIndependent ==
  [][/\ Del(documents', request'.uri) = Del(documents, request'.uri)
     /\ Del(models', request'.uri) = Del(models, request'.uri)
     /\ ModelBuilt(request', response') =>
          /\ request'.uri \in DOMAIN models'
          /\ models'[request'.uri] = Parse(documents'[request'.uri]).model]_vars

\* both documents are open with different texts and different models, and
\* the last notification has built the model of one of them
C24_Witness ==
  /\ DOMAIN documents = Uris
  /\ DOMAIN models = Uris
  /\ documents[UriA] # documents[UriB]
  /\ models[UriA] # models[UriB]
  /\ request # NoRequest
  /\ request.uri = UriA
  /\ ModelBuilt(request, response)
  /\ models[UriA] = Parse(LnDclX).model

\* C25: after any notifications, the URIs that have a stored text are the
\* URIs that have a stored model.
C25_SameUrisInBothStores == DOMAIN documents = DOMAIN models

-----------------------------------------------------------------------------
\* Messages whose method the server does not implement

\* the id of a message: none, or a number
MessageIds == {None, Some(0), Some(1), Some(2)}

UnknownMethods == {"workspace/symbol", "$/cancelRequest"}

\* the truth value of request.get('id'): neither None nor 0
IdTruthy(request_id) == request_id # None /\ TheValue(request_id) # 0

\* the last branch of handle_request: the response, or none
HandleUnknown(request_id, method) ==
  IF IdTruthy(request_id)
  THEN [jsonrpc |-> "2.0", id |-> TheValue(request_id),
        error |-> [code |-> 0 - 32601, message |-> "Method not found: " \o method]]
  ELSE NoResponse

\* a message with a method that handle_request does not know
UnknownMethod ==
  \E i \in MessageIds, meth \in UnknownMethods :
    /\ pc = "serve"
    /\ request' = [method |-> meth, id |-> i]
    /\ response' = HandleUnknown(i, meth)
    /\ UNCHANGED <<pc, source, clean, lines, idx, model, documents, models>>

\* the methods whose handlers read params['textDocument'] first
TextDocumentMethods ==
  {"textDocument/didOpen", "textDocument/didChange", "textDocument/didClose",
   "textDocument/completion", "textDocument/hover", "textDocument/definition",
   "textDocument/references", "textDocument/documentSymbol"}

\* a message of such a method without params: the handler raises
\* KeyError('textDocument') before it reads or writes anything, and main
\* answers with the internal error
WithoutTextDocument ==
  \E i \in MessageIds, meth \in TextDocumentMethods :
    /\ pc = "serve"
    /\ request' = [method |-> meth, id |-> i]
    /\ response' = InternalError("'textDocument'")
    /\ UNCHANGED <<pc, source, clean, lines, idx, model, documents, models>>

NextMethods == DidOpen \/ DidChange \/ DidClose \/ UnknownMethod \/ WithoutTextDocument

SpecMethods == InitServer /\ [][NextMethods]_vars

\* C26: a message with an unknown method and an id, whatever its value, is
\* answered with the error -32601 carrying this id; without an id there is no
\* response.
C26_MethodNotFoundCarriesId ==
  (request # NoRequest /\ request.method \in UnknownMethods) =>
    IF request.id # None
    THEN response = [jsonrpc |-> "2.0", id |-> TheValue(request.id),
                     error |-> [code |-> 0 - 32601,
                                message |-> "Method not found: " \o request.method]]
    ELSE response = NoResponse

-----------------------------------------------------------------------------
\* Range bounds of any number of digits

\* NEWMODE big = RANGE(0:99...9); with one digit more than int() converts
RgBig ==
  <<"N", "E", "W", "M", "O", "D", "E", " ", "b", "i", "g", " ", "=", " ", "R", "A", "N", "G", "E", "(", "0", ":">> \o [i \in 1..MaxStrDigits + 1 |-> "9"] \o <<")", ";">>

MaxBigRangeLines == 2

PoolBigRange == {RgBig, RgCounter, RgNegB, LnDclX, LnModuleM}

InitBigRange == InitParse(Documents(PoolBigRange, MaxBigRangeLines))

SpecBigRange == InitBigRange /\ [][NextParse]_vars

\* line n of the scanned lines is NEWMODE/SYNMODE name = RANGE(lo:hi) and no
\* later line defines a mode of this name
LastRangeOfName(ls, n) ==
  /\ NewmodeRange(Strip(ls[n])).ok
  /\ \A k \in (n + 1)..Len(ls) :
       MatchNewmode(Strip(ls[k])).ok =>
         MatchNewmode(Strip(ls[k])).name # MatchNewmode(Strip(ls[n])).name

\* C15: when parse is over, every line NEWMODE/SYNMODE name = RANGE(lo:hi) on
\* line n (the last one to define name), whatever the integers lo and hi, has
\* given a model holding a mode named name of category RANGE with
\* range_low = lo, range_high = hi and line_number = n.
C15_AnyBoundsRecorded ==
  pc \in {"done", "raised"} =>
    \A n \in 1..Len(lines) :
      LastRangeOfName(lines, n) =>
        /\ pc = "done"
        /\ \E md \in GetMode(model, MatchNewmode(Strip(lines[n])).name) :
             /\ md.base_mode = "RANGE"
             /\ md.line_number = n
             /\ md.range_low = Some(IntValue(NewmodeRange(Strip(lines[n])).low))
             /\ md.range_high = Some(IntValue(NewmodeRange(Strip(lines[n])).high))

-----------------------------------------------------------------------------
\* Hover on the words of the keyword documentation

HkModule == <<"M", "O", "D", "U", "L", "E">>
HkXor == <<"x", "o", "r">>
HkInt == <<"I", "N", "T">>

MaxKeywordLines == 2

PoolKeywords == {HkModule, HkXor, HkInt, LnDclX, QyZz}

InitKeywords ==
  /\ pc = "serve"
  /\ documents \in {[u \in {UriA} |-> t] : t \in Documents(PoolKeywords, MaxKeywordLines)}
  /\ models = ParseDocument(documents, NoModels, UriA).models
  /\ request = NoRequest
  /\ response = NoResponse
  /\ source = <<>>
  /\ clean = <<>>
  /\ lines = <<>>
  /\ idx = 0
  /\ model = EmptyModel

NextKeywords == Hover

SpecKeywords == InitKeywords /\ [][NextKeywords]_vars

\* the word a hover request points at
HoveredWord(docs, req) == GetWordAtPosition(docs[req.uri], req.line, req.character)

\* C27: a hover request in an open document on a word that has an entry in
\* KEYWORD_DOCS is answered with "**word** - " and the text of this entry.
C27_KeywordHoverGivesDocs ==
  (/\ request # NoRequest
   /\ request.uri \in DOMAIN documents
   /\ DictHas(KEYWORD_DOCS, Upper(HoveredWord(documents, request)))) =>
    response.result =
      [contents |->
         [kind |-> "markdown",
          value |-> HoverHead(HoveredWord(documents, request),
                              DictGet(KEYWORD_DOCS, Upper(HoveredWord(documents, request))))]]
=============================================================================
